---- MODULE Spec2Model ----
(***************************************************************************)
(* Ad-hoc table ingestion pipeline (AdhocTableService and the services it  *)
(* calls): the metadata store, the warehouse, the Explore store, the       *)
(* catalog and the access rules, as a state machine.                       *)
(***************************************************************************)
EXTENDS Integers, Sequences, FiniteSets, TLC

(* ---------------- bounds of the model ---------------- *)
\* how many uploads (createFromFile calls) a behaviour starts
MaxUploads == 1
\* how far the wall clock (Date.now(), now()) advances
MaxClock == 1
\* the number of data rows of an uploaded file that has data rows
MaxRows == 2

(* ---------------- the directory (external collaborators) ---------------- *)
Users == {"u1", "u2"}
Projects == {"p1", "p2"}
\* a project id no project has (projectModel.getProject returns nothing)
UnknownProject == "p0"
\* project_memberships: u1 is a member of both projects, u2 of p1 only
project_memberships == {<<"p1", "u1">>, <<"p1", "u2">>, <<"p2", "u1">>}
\* credentials.type of each project's warehouse connection
WarehouseTypeOf(projectUuid) == IF projectUuid = "p1" THEN "postgres" ELSE "redshift"

\* SQL NULL / undefined / null
NULL == <<>>

\* AdhocTableScope: the values stored in adhoc_tables.scope
SCOPE_PERSONAL == "personal"
SCOPE_SHARED == "shared"
Scopes == {SCOPE_PERSONAL, SCOPE_SHARED}

\* AdhocTableType
TYPE_CSV == "csv"
TYPE_EXCEL == "xlsx"

\* the header row of an uploaded file (the columns of the parsed rows)
Headers == <<"id", "active">>

\* An uploaded file: its format, whether its bytes are malformed, and the
\* number of data rows under the header row.
Files ==
    { f \in [fileType : {TYPE_CSV, TYPE_EXCEL}, malformed : BOOLEAN, nRows : {0, MaxRows}] :
        f.malformed => f.nRows = 0 }

\* AdhocTableRetention
RETENTION_TEMPORARY == "temporary"
RETENTION_PERMANENT == "permanent"

\* a text is the sequence of its lines; the name the browser sent for a file
UploadedName == <<"sales.csv">>

\* AdhocTableCreateRequest (the fields the workflow reads)
Requests ==
    [file : Files, fileName : {UploadedName}, tableName : {"sales"}, scope : Scopes,
     retention : {RETENTION_PERMANENT}, retentionDays : {NULL}]

\* the requests of the upload form: retention with or without a day count
RetentionRequests ==
    [file : {f \in Files : f.fileType = TYPE_CSV}, fileName : {UploadedName},
     tableName : {"sales"}, scope : {SCOPE_PERSONAL},
     retention : {RETENTION_PERMANENT, RETENTION_TEMPORARY}, retentionDays : {NULL, <<30>>}]

VARIABLES
    clock,              \* the wall clock: Date.now() and the database's now()
    uploads,            \* number of createFromFile calls started so far
    adhoc_tables,       \* metadata store: uuid -> row of adhoc_tables
    adhoc_table_access, \* rows of adhoc_table_access
    warehouse,          \* physical tables: name -> [rows, committed]
    cached_explore,     \* rows of cached_explore
    catalog_search,     \* rows of catalog_search
    ing,                \* the createFromFile call in progress (its locals and position)
    resp,               \* the response of the last completed deleteTable / grant / revoke call
    call                \* the call of a side-effect-free routine under examination: [fn, arg, out]

vars == <<clock, uploads, adhoc_tables, adhoc_table_access, warehouse,
          cached_explore, catalog_search, ing, resp, call>>

stores == <<adhoc_tables, adhoc_table_access, warehouse, cached_explore, catalog_search>>

(* ---------------- errors ---------------- *)
NoError == "none"
NotFoundError == "NotFoundError"
ForbiddenError == "ForbiddenError"
\* new Error('CSV file is empty')
CsvEmptyError == "CSV file is empty"
\* new Error('Excel parsing failed: Excel sheet is empty')
ExcelEmptyError == "Excel parsing failed: Excel sheet is empty"
\* new Error('CSV parsing failed: ...') / new Error('Excel parsing failed: ...')
ParsingFailedError == "parsing failed"
\* new Error('Uploaded file is empty')
UploadedEmptyError == "Uploaded file is empty"
\* new Error('Failed to create <backend> table ...')
WarehouseError == "Failed to create warehouse table"
\* a rejected metadata insert
DatabaseError == "database error"

IdleIng ==
    [pc |-> "Idle", projectUuid |-> UnknownProject, userUuid |-> "u1",
     request |-> [file |-> [fileType |-> TYPE_CSV, malformed |-> FALSE, nRows |-> 0],
                  fileName |-> UploadedName, tableName |-> "sales", scope |-> SCOPE_PERSONAL,
                  retention |-> RETENTION_PERMANENT, retentionDays |-> NULL],
     rows |-> 0, warehouseTableName |-> NULL, recordUuid |-> 0, exploreUuid |-> 0,
     error |-> NoError, steps |-> <<>>]

NoResp == [op |-> "none", error |-> NoError]

\* no call of a side-effect-free routine is under examination
NoCall == [fn |-> "none", arg |-> NULL, out |-> NULL]

\* the service after construction, on a migrated and empty database
ServiceInit ==
    /\ clock = 0
    /\ uploads = 0
    /\ adhoc_tables = <<>>
    /\ adhoc_table_access = {}
    /\ warehouse = <<>>
    /\ cached_explore = {}
    /\ catalog_search = {}
    /\ ing = IdleIng
    /\ resp = NoResp

Init ==
    /\ ServiceInit
    /\ call = NoCall

\* time passes
Tick ==
    /\ clock < MaxClock
    /\ clock' = clock + 1
    /\ UNCHANGED <<uploads, stores, ing, resp, call>>

(* ---------------- FileParserService ---------------- *)
\* a parser that takes the header row for a data row (header: true left out)
ParseFile_HeaderAsRow(file) ==
    IF file.malformed THEN [error |-> ParsingFailedError, rows |-> 0]
    ELSE [error |-> NoError, rows |-> file.nRows + 1]

\* parseCSV / parseExcel: the rows of the file, or the error the parser rejects with
ParseFile(file) ==
    IF file.malformed THEN [error |-> ParsingFailedError, rows |-> 0]
    ELSE IF file.nRows = 0
         THEN [error |-> IF file.fileType = TYPE_CSV THEN CsvEmptyError ELSE ExcelEmptyError,
               rows |-> 0]
         ELSE [error |-> NoError, rows |-> file.nRows]

(* ---------------- FileParserService: type inference ---------------- *)
\* the most runs of equal cells a column of the model has
MaxRuns == 3

\* The cells of one column, by what the parser's tests see in them: a missing,
\* null or undefined value; the empty string; "1" or "0"; "true", "false",
\* "yes" or "no"; any other numeric string; a string one of the date patterns
\* matches; any other string. No string passes both the numeric test and a
\* date pattern, and no boolean literal matches a date pattern.
Cells == {"null", "empty", "bit", "word", "num", "date", "text"}

\* what filter((val) => val !== null && val !== undefined && val !== '') drops
Dropped == {"null", "empty"}

\* the cells the boolean test, the numeric test and the date patterns accept
BooleanCells == {"bit", "word"}
NumberCells == {"bit", "num"}
DateCells == {"date"}

\* a column is written as runs of equal cells, top row first: <<[cell, n], ...>>
RunLengths == {1, 20, 80, 100}
Runs == [cell : Cells, n : RunLengths]

\* the columns of the row sequences the parser hands to inferColumnTypes (at
\* least one row: an empty file is rejected before)
Columns == UNION {[1..k -> Runs] : k \in 1..MaxRuns}

\* array.length
RECURSIVE Length(_)
Length(runs) == IF runs = <<>> THEN 0 ELSE Head(runs).n + Length(Tail(runs))

\* array.slice(0, k)
RECURSIVE slice(_, _)
slice(runs, k) ==
    IF runs = <<>> \/ k = 0 THEN <<>>
    ELSE IF Head(runs).n <= k THEN <<Head(runs)>> \o slice(Tail(runs), k - Head(runs).n)
    ELSE <<[Head(runs) EXCEPT !.n = k]>>

\* array.filter(...) keeping the cells of `kept`
filter(runs, kept) == SelectSeq(runs, LAMBDA r : r.cell \in kept)

\* the same array written with the fewest runs
RECURSIVE Merged(_)
Merged(runs) ==
    IF Len(runs) < 2 THEN runs
    ELSE IF runs[1].cell = runs[2].cell
         THEN Merged(<<[cell |-> runs[1].cell, n |-> runs[1].n + runs[2].n]>> \o SubSeq(runs, 3, Len(runs)))
         ELSE <<runs[1]>> \o Merged(Tail(runs))

\* rows.slice(0, 100)
SampleRows == 100

\* const threshold = values.length * 0.8; score >= threshold  (for the lengths
\* up to SampleRows the floating-point product compares as the exact 4/5)
MeetsThreshold(score, length) == 5 * score >= 4 * length

\* a detectColumnType that tests number before boolean
detectColumnType_NumberFirst(values) ==
    IF Length(values) = 0 THEN "string"
    ELSE IF MeetsThreshold(Length(filter(values, NumberCells)), Length(values)) THEN "number"
    ELSE IF MeetsThreshold(Length(filter(values, BooleanCells)), Length(values)) THEN "boolean"
    ELSE IF MeetsThreshold(Length(filter(values, DateCells)), Length(values)) THEN "date"
    ELSE "string"

\* detectColumnType
detectColumnType(values) ==
    IF Length(values) = 0 THEN "string"
    ELSE LET boolean == Length(filter(values, BooleanCells))
             number == Length(filter(values, NumberCells))
             date == Length(filter(values, DateCells))
         IN IF MeetsThreshold(boolean, Length(values)) THEN "boolean"
            ELSE IF MeetsThreshold(date, Length(values)) THEN "date"
            ELSE IF MeetsThreshold(number, Length(values)) THEN "number"
            ELSE "string"

\* mapToWarehouseType
mapToWarehouseType(type) ==
    CASE type = "string" -> "STRING"
      [] type = "number" -> "NUMERIC"
      [] type = "date" -> "TIMESTAMP"
      [] type = "boolean" -> "BOOLEAN"
      [] OTHER -> "STRING"

\* the sample of inferColumnTypes: rows.slice(0, 100).map(...).filter(...)
sampleValues(rows) == filter(slice(rows, SampleRows), Cells \ Dropped)

\* inferColumnTypes, for one header: the ColumnInference of the column
inferColumnTypes(rows) ==
    LET sample == sampleValues(rows)
        type == detectColumnType(sample)
    IN [type |-> type,
        displayType |-> mapToWarehouseType(type),
        nullable |-> Length(sample) < Length(rows),
        sampleValues |-> Merged(slice(sample, 5))]

\* FileParserService.inferColumnTypes is called on a column
InferColumnTypes ==
    /\ call.fn = "inferColumnTypes"
    /\ call.out = NULL
    /\ call' = [call EXCEPT !.out = inferColumnTypes(call.arg)]
    /\ UNCHANGED <<clock, uploads, stores, ing, resp>>

(* ---------------- identifier sanitizers ---------------- *)
\* the most runs of equal characters a name of the model has
MaxNameRuns == 3

\* A name is a string, written as runs of equal characters <<[cell, n], ...>>.
\* The characters of uploaded names: a lower-case letter, an upper-case letter,
\* a digit, the underscore and a character outside [A-Za-z0-9_].
NameChars == {"a", "B", "1", "_", "-"}
LowerCase == {"a", "b", "c", "d", "h", "o", "l", "u", "m", "n", "e", "f"}
UpperCase == {"B"}
Digits == {"1"}

NameRunLengths == {1, 62, 126, 127, 254}
Names == UNION {[1..k -> [cell : NameChars, n : NameRunLengths]] : k \in 0..MaxNameRuns}

\* the string 'column'
ColumnPlaceholder ==
    <<[cell |-> "c", n |-> 1], [cell |-> "o", n |-> 1], [cell |-> "l", n |-> 1],
      [cell |-> "u", n |-> 1], [cell |-> "m", n |-> 1], [cell |-> "n", n |-> 1]>>

\* uuidv4().slice(0, 8): eight characters, taken here as all equal
UuidPrefixes == {<<[cell |-> "e", n |-> 8]>>, <<[cell |-> "f", n |-> 8]>>}

\* str.replace(/[^<kept>]/g, to): every character outside `kept` becomes `to`
replaceAll(str, kept, to) ==
    [i \in DOMAIN str |-> IF str[i].cell \notin kept THEN [str[i] EXCEPT !.cell = to] ELSE str[i]]

\* str.replace(/^[^<kept>]/, to): a first character outside `kept` becomes `to`
replaceFirst(str, kept, to) ==
    IF str = <<>> \/ str[1].cell \in kept THEN str
    ELSE IF str[1].n = 1 THEN <<[cell |-> to, n |-> 1]>> \o Tail(str)
    ELSE <<[cell |-> to, n |-> 1], [str[1] EXCEPT !.n = @ - 1]>> \o Tail(str)

\* str.replace(/^_+/, '')
RECURSIVE stripLeading(_)
stripLeading(str) ==
    IF str # <<>> /\ str[1].cell = "_" THEN stripLeading(Tail(str)) ELSE str

\* str.replace(/_+$/, '')
RECURSIVE stripTrailing(_)
stripTrailing(str) ==
    IF str # <<>> /\ str[Len(str)].cell = "_"
    THEN stripTrailing(SubSeq(str, 1, Len(str) - 1)) ELSE str

\* str.replace(/^_+|_+$/g, '')
strip(str) == stripTrailing(stripLeading(str))

\* str.replace(/_+/g, '_')
collapse(str) ==
    LET m == Merged(str) IN
    [i \in DOMAIN m |-> IF m[i].cell = "_" THEN [m[i] EXCEPT !.n = 1] ELSE m[i]]

\* str.toLowerCase()
toLowerCase(str) ==
    [i \in DOMAIN str |-> IF str[i].cell = "B" THEN [str[i] EXCEPT !.cell = "b"] ELSE str[i]]

\* the identifier limits: substring(0, 63), substring(0, 128), substring(0, 127),
\* substring(0, 255)
PostgresLimit == 63
BigQueryLimit == 128
RedshiftLimit == 127
SnowflakeLimit == 255

\* sanitizeColumnName of the warehouse helpers, which differ in the limit only
sanitizeColumnName(name, limit) ==
    LET legal == LowerCase \cup UpperCase \cup Digits \cup {"_"}
        goodStart == LowerCase \cup UpperCase \cup {"_"}
        replaced == replaceFirst(replaceAll(name, legal, "_"), goodStart, "_")
        stripped == strip(replaced)
        sanitized == IF stripped = <<>> THEN ColumnPlaceholder ELSE stripped
    IN Merged(slice(sanitized, limit))

\* sanitizeTableName of the warehouse helpers
sanitizeTableName(name, limit) == sanitizeColumnName(name, limit)

\* AdhocTableExploreService.sanitizeFieldName; `uuid` is what uuidv4().slice(0, 8) gives
sanitizeFieldName(columnName, uuid) ==
    LET legal == LowerCase \cup Digits \cup {"_"}
        stripped == strip(collapse(replaceAll(toLowerCase(columnName), legal, "_")))
        prefixed == IF stripped # <<>> /\ stripped[1].cell \in Digits
                    THEN <<[cell |-> "_", n |-> 1]>> \o stripped ELSE stripped
    IN Merged(IF prefixed = <<>>
              THEN ColumnPlaceholder \o <<[cell |-> "_", n |-> 1]>> \o uuid
              ELSE prefixed)

\* the sanitizers: one per warehouse helper and the Explore field-name sanitizer
Sanitizers == {"postgres", "bigquery", "redshift", "snowflake", "explore"}

\* the sanitizer `fn` applied to `name`
Sanitized(fn, name, uuid) ==
    CASE fn = "postgres" -> sanitizeColumnName(name, PostgresLimit)
      [] fn = "bigquery" -> sanitizeColumnName(name, BigQueryLimit)
      [] fn = "redshift" -> sanitizeColumnName(name, RedshiftLimit)
      [] fn = "snowflake" -> sanitizeColumnName(name, SnowflakeLimit)
      [] fn = "explore" -> sanitizeFieldName(name, uuid)

\* a sanitizer is called on a name
Sanitize ==
    /\ call.fn \in Sanitizers
    /\ call.out = NULL
    /\ \E uuid \in UuidPrefixes : call' = [call EXCEPT !.out = Sanitized(call.fn, call.arg, uuid)]
    /\ UNCHANGED <<clock, uploads, stores, ing, resp>>

\* the header lists of the model: two distinct column names of a few characters
ShortNames(k) == UNION {[1..j -> [cell : NameChars, n : {1}]] : j \in 1..k}
HeaderLists ==
    {<<a, b>> : a \in {Merged(x) : x \in ShortNames(MaxNameRuns)},
                b \in {Merged(x) : x \in ShortNames(2)}} \ {<<a, a>> : a \in Names}

\* mapColumnTypeToDimensionType: switch (columnType.toLowerCase())
mapColumnTypeToDimensionType(columnType) ==
    CASE columnType \in {"number", "NUMBER"} -> "DimensionType.NUMBER"
      [] columnType \in {"date", "DATE"} -> "DimensionType.DATE"
      [] columnType \in {"boolean", "BOOLEAN"} -> "DimensionType.BOOLEAN"
      [] OTHER -> "DimensionType.STRING"

\* generateDimensions: columns.reduce((acc, column) => ({...acc, [sanitizedName]:
\* dimension}), {}); uuids[i] is what uuidv4().slice(0, 8) gives for column i
\* (two calls of uuidv4 give two values)
RECURSIVE generateDimensions(_, _)
generateDimensions(columns, uuids) ==
    IF columns = <<>> THEN <<>>
    ELSE LET last == Len(columns)
             acc == generateDimensions(SubSeq(columns, 1, last - 1), uuids)
             column == columns[last]
             sanitizedName == sanitizeFieldName(column.name, uuids[last])
         IN [k \in DOMAIN acc \cup {sanitizedName} |->
                IF k = sanitizedName
                THEN [name |-> sanitizedName, label |-> column.name,
                      type |-> mapColumnTypeToDimensionType(column.type)]
                ELSE acc[k]]

\* generateMetrics: the one metric row_count
generateMetrics ==
    [k \in {"row_count"} |-> [name |-> "row_count", type |-> "MetricType.COUNT",
                              sql |-> "COUNT(*)"]]

\* generateExplore: the dimensions and metrics of the one table of the Explore,
\* tables[adhocTableUuid]
exploreTable(columns, uuids) ==
    [dimensions |-> generateDimensions(columns, uuids), metrics |-> generateMetrics]

\* the columns registerExplore hands to generateExplore for the headers of an
\* upload and their inferred types
ColumnDefs(names, types) == [i \in DOMAIN names |-> [name |-> names[i], type |-> types[i]]]

\* AdhocTableExploreService.generateDimensions is called on the columns of an upload
GenerateDimensions ==
    /\ call.fn = "generateDimensions"
    /\ call.out = NULL
    /\ \E uuids \in [DOMAIN call.arg -> UuidPrefixes] :
          /\ \A i, j \in DOMAIN uuids : uuids[i] = uuids[j] => i = j
          /\ call' = [call EXCEPT !.out =
                [error |-> NoError,
                 dimensions |-> generateDimensions(
                     ColumnDefs(call.arg, [i \in DOMAIN call.arg |-> "string"]), uuids)]]
    /\ UNCHANGED <<clock, uploads, stores, ing, resp>>

\* AdhocTableExploreService.generateExplore is called on the columns of an upload
GenerateExplore ==
    /\ call.fn = "generateExplore"
    /\ call.out = NULL
    /\ \E uuids \in [DOMAIN call.arg.names -> UuidPrefixes] :
          /\ \A i, j \in DOMAIN uuids : uuids[i] = uuids[j] => i = j
          /\ call' = [call EXCEPT !.out =
                exploreTable(ColumnDefs(call.arg.names, call.arg.types), uuids)]
    /\ UNCHANGED <<clock, uploads, stores, ing, resp>>

\* buildCreateTableStatement (Postgres): the column identifiers of the statement
buildCreateTableStatement(columns) ==
    [i \in DOMAIN columns |-> sanitizeColumnName(columns[i], PostgresLimit)]

\* PostgresAdhocTableHelper.buildCreateTableStatement is called on the columns of an upload
BuildCreateTableStatement ==
    /\ call.fn = "buildCreateTableStatement"
    /\ call.out = NULL
    /\ call' = [call EXCEPT !.out = [error |-> NoError,
                                      columns |-> buildCreateTableStatement(call.arg)]]
    /\ UNCHANGED <<clock, uploads, stores, ing, resp>>

(* ---------------- AdhocTableService.createFromFile ---------------- *)
IngFinished == ing.pc \in {"Idle", "Ready", "Failed"}

Outcome(ok) == IF ok THEN "ok" ELSE "failed"

\* createFromFile moves to position `pc2` having done `step` with outcome `ok`:
\* "Failed" is a throw (the caller gets `err`, the locals are gone), "Ready" is
\* return formatRecord(record) (the caller gets the record)
Goto(pc2, step, ok, err) ==
    LET log == Append(ing.steps, <<step, Outcome(ok)>>) IN
    IF pc2 = "Failed" THEN [IdleIng EXCEPT !.pc = "Failed", !.error = err, !.steps = log]
    ELSE IF pc2 = "Ready"
         THEN [IdleIng EXCEPT !.pc = "Ready", !.recordUuid = ing.recordUuid, !.steps = log]
    ELSE [ing EXCEPT !.pc = pc2, !.steps = log]

\* after projectModel.getProject: if (!project) throw new NotFoundError
AfterProject(found) == IF found THEN "Parsing" ELSE "Failed"

\* createFromFile is called: the project lookup
IngestStart(projectUuid, userUuid, request) ==
    /\ IngFinished
    /\ uploads < MaxUploads
    /\ uploads' = uploads + 1
    /\ LET found == projectUuid \in Projects
           pc2 == AfterProject(found)
           called == [IdleIng EXCEPT !.pc = pc2, !.steps = << <<"project", Outcome(found)>> >>]
       IN ing' = IF pc2 = "Failed" THEN [called EXCEPT !.error = NotFoundError]
                 ELSE [called EXCEPT !.projectUuid = projectUuid, !.userUuid = userUuid,
                                     !.request = request]
    /\ UNCHANGED <<clock, stores, resp, call>>

\* after FileParserService.parseCSV / parseExcel, which rejects on an error, and
\* if (parseResult.rows.length === 0) throw new Error('Uploaded file is empty')
AfterParse(res) == IF res.error # NoError \/ res.rows = 0 THEN "Failed" ELSE "SchemaInferred"

\* FileParserService.parseCSV / parseExcel, which infers the column types
\* before it returns, then the rows.length check of createFromFile
Parse ==
    /\ ing.pc = "Parsing"
    /\ LET res == ParseFile(ing.request.file)
           parsed == res.error = NoError
           pc2 == AfterParse(res)
           next == Goto(pc2, "parse", parsed,
                        IF parsed THEN UploadedEmptyError ELSE res.error)
       IN ing' = IF pc2 = "SchemaInferred"
                 THEN [next EXCEPT !.rows = res.rows, !.steps = Append(@, <<"infer", "ok">>)]
                 ELSE next
    /\ UNCHANGED <<clock, uploads, stores, resp, call>>

\* generateWarehouseTableName: adhoc_<sanitized>_<userPrefix>_<timestamp>, the
\* timestamp being Date.now() in base 36
generateWarehouseTableName(tableName, userUuid) ==
    <<"adhoc", tableName, userUuid, clock>>

\* the name is generated and the warehouse client built from the credentials
PrepareWarehouse ==
    /\ ing.pc = "SchemaInferred"
    /\ ing' = [ing EXCEPT !.pc = "TableCreating",
                          !.warehouseTableName =
                              generateWarehouseTableName(ing.request.tableName, ing.userUuid)]
    /\ UNCHANGED <<clock, uploads, stores, resp, call>>

(* ---------------- warehouse adapters: createTableFromData ---------------- *)
\* an adapter without the guard on the number of rows
RejectsEmpty_Never(nRows) == FALSE

\* the adapter's guard: if (rows.length === 0) throw
RejectsEmpty(nRows) == nRows = 0

\* the transactional variant works inside BEGIN ... COMMIT / ROLLBACK
IsTransactional(warehouseType) == warehouseType = "postgres"

\* a CREATE TABLE whose result is not awaited: a failure goes unnoticed
AfterCreate_NotAwaited(ok) == "DataLoading"

\* a createFromFile that goes on to the metadata insert without awaiting the load
AfterCreate_LoadNotAwaited(ok) == IF ok THEN "Persisting" ELSE "Failed"

\* createTableFromData after the CREATE TABLE statement: await client.query(...)
\* throws into the catch block, which rethrows
AfterCreate(ok) == IF ok THEN "DataLoading" ELSE "Failed"

\* an adapter that swallows the load failure
AfterLoad_Swallowed(ok) == "Persisting"

\* createFromFile after createTableFromData returned or threw
AfterLoad(ok) == IF ok THEN "Persisting" ELSE "Failed"

\* CREATE TABLE (after connect and, for Postgres, BEGIN): the statement fails
\* when the backend rejects it, always so when the name is taken
CreateTable ==
    /\ ing.pc = "TableCreating"
    /\ LET name == ing.warehouseTableName
           wtype == WarehouseTypeOf(ing.projectUuid) IN
        \E backendOk \in BOOLEAN :
            LET ok == backendOk /\ ~RejectsEmpty(ing.rows) /\ name \notin DOMAIN warehouse IN
            /\ warehouse' = IF ok
                            THEN warehouse @@
                                 (name :> [rows |-> 0, committed |-> ~IsTransactional(wtype)])
                            ELSE warehouse
            /\ ing' = Goto(AfterCreate(ok), "create", ok, WarehouseError)
    /\ UNCHANGED <<clock, uploads, adhoc_tables, adhoc_table_access, cached_explore,
                   catalog_search, resp, call>>

\* the warehouse without the table `name`
DropTable(name) == [n \in DOMAIN warehouse \ {name} |-> warehouse[n]]

\* insertRows (and, for Postgres, COMMIT): on failure Postgres rolls the
\* transaction back, the other variants leave the table as far as it was loaded
\* (a file of at most one batch: no row)
LoadRows ==
    /\ ing.pc = "DataLoading"
    /\ LET name == ing.warehouseTableName
           wtype == WarehouseTypeOf(ing.projectUuid) IN
        \E ok \in BOOLEAN :
            /\ warehouse' = IF ok
                            THEN [warehouse EXCEPT ![name] = [rows |-> ing.rows, committed |-> TRUE]]
                            ELSE IF IsTransactional(wtype) THEN DropTable(name)
                            ELSE warehouse
            /\ ing' = Goto(AfterLoad(ok), "load", ok, WarehouseError)
    /\ UNCHANGED <<clock, uploads, adhoc_tables, adhoc_table_access, cached_explore,
                   catalog_search, resp, call>>

(* ---------------- warehouse adapters: the calls of createTableFromData ---------------- *)
\* the most insert batches an adapter call of the model needs
MaxBatches == 3

\* const batchSize = 1000
BatchSize == 1000

\* the adapter variants: transactional SQL, batched SQL, columnar API, staged file
Adapters == {"postgres", "redshift", "bigquery", "snowflake"}

\* the numbers of rows handed to an adapter: none, and full and nearly empty
\* last batches
RowCounts ==
    {0} \cup {b * BatchSize : b \in 1..MaxBatches}
        \cup {b * BatchSize + 1 : b \in 0..(MaxBatches - 1)}

\* for (let i = 0; i < rows.length; i += batchSize): the number of batches
Batches(nRows) == (nRows + BatchSize - 1) \div BatchSize

\* new Error('Cannot create table from empty data')
EmptyDataError == "Cannot create table from empty data"
\* the rejection of pool.connect(), which the helpers await outside their try block
ConnectError == "connection error"
\* the rejection of the ROLLBACK statement inside the catch block
RollbackError == "rollback error"

\* a transactional script from which BEGIN and COMMIT are left out
Script_Autocommit(variant, nRows) ==
    LET inserts == [i \in 1..Batches(nRows) |-> "INSERT"] IN
    CASE variant \in {"postgres", "redshift"} -> <<"connect", "CREATE TABLE">> \o inserts
      [] variant = "bigquery" -> <<"createTable", "insert">>
      [] variant = "snowflake" -> <<"CREATE TABLE", "writeFile", "PUT", "COPY INTO">>

\* the backend calls of a createTableFromData in which every call succeeds, in
\* the order they are issued
Script(variant, nRows) ==
    LET inserts == [i \in 1..Batches(nRows) |-> "INSERT"] IN
    CASE variant = "postgres" -> <<"connect", "BEGIN", "CREATE TABLE">> \o inserts \o <<"COMMIT">>
      [] variant = "redshift" -> <<"connect", "CREATE TABLE">> \o inserts
      [] variant = "bigquery" -> <<"createTable", "insert">>
      [] variant = "snowflake" -> <<"CREATE TABLE", "writeFile", "PUT", "COPY INTO">>

\* the calls issued when call number k of the script fails (k = 0: none fails):
\* the Postgres helper issues every INSERT before it awaits any of them
Issued(variant, script, k) ==
    IF k = 0 THEN script
    ELSE IF variant = "postgres" /\ script[k] = "INSERT"
         THEN SubSeq(script, 1, Len(script) - 1)
         ELSE SubSeq(script, 1, k)

\* the calls that carry rows to the backend
LoadCalls == {"INSERT", "insert", "COPY INTO"}

\* rows.slice(i, i + batchSize) of batch number b, as the range [from, to) of
\* row numbers
Batch(nRows, b) ==
    [from |-> (b - 1) * BatchSize,
     to |-> IF b * BatchSize < nRows THEN b * BatchSize ELSE nRows]

\* the rows each load call of the script carries, in the order of issue: the
\* SQL helpers send one slice per INSERT, the BigQuery helper hands all rows to
\* one table.insert, the Snowflake helper writes all rows to the one staged file
Carried(variant, nRows) ==
    IF variant \in {"postgres", "redshift"}
    THEN [b \in 1..Batches(nRows) |-> Batch(nRows, b)]
    ELSE <<[from |-> 0, to |-> nRows]>>

\* the number of records call number i of the script adds to the table: the
\* staged file of the Snowflake helper holds a header line before the rows and
\* is copied with SKIP_HEADER = 0
Records(variant, nRows, script, i) ==
    IF i > Len(script) \/ script[i] \notin LoadCalls THEN 0
    ELSE LET b == Cardinality({j \in 1..i : script[j] \in LoadCalls})
             rows == Carried(variant, nRows)[b]
         IN (rows.to - rows.from) + (IF variant = "snowflake" THEN 1 ELSE 0)

\* the warehouse as one session sees it: the table other sessions see, the
\* table as the open transaction has it, and the state of the transaction
NoTable == [exists |-> FALSE, rows |-> 0]
NoDatabase == [tx |-> "none", pending |-> NoTable, visible |-> NoTable]

\* the effect of one call on the warehouse: a statement that fails changes
\* nothing and aborts an open transaction, a statement in an aborted
\* transaction fails, and only COMMIT shows the work of a transaction to others
Exec(db, op, records, ok) ==
    LET inTx == db.tx # "none"
        target == IF inTx THEN db.pending ELSE db.visible
        put(t) == IF inTx THEN [db EXCEPT !.pending = t] ELSE [db EXCEPT !.visible = t]
        abort == IF db.tx = "open" THEN [db EXCEPT !.tx = "aborted"] ELSE db
        runs == ok /\ db.tx # "aborted"
    IN CASE op = "BEGIN" ->
              IF ok THEN [db EXCEPT !.tx = "open", !.pending = db.visible] ELSE db
         [] op \in {"CREATE TABLE", "createTable"} ->
              IF runs /\ ~target.exists THEN put([exists |-> TRUE, rows |-> 0]) ELSE abort
         [] op \in LoadCalls ->
              IF runs /\ target.exists THEN put([target EXCEPT !.rows = @ + records])
              ELSE abort
         [] op = "COMMIT" ->
              IF ok /\ db.tx = "open"
              THEN [tx |-> "none", pending |-> NoTable, visible |-> db.pending]
              ELSE [db EXCEPT !.tx = "none", !.pending = NoTable]
         [] op = "ROLLBACK" ->
              IF ok THEN [db EXCEPT !.tx = "none", !.pending = NoTable] ELSE db
         [] OTHER -> db

\* the warehouse after the calls from number i on, when call number k fails and
\* the ROLLBACK succeeds or not
RECURSIVE Run(_, _, _, _, _, _, _)
Run(db, variant, nRows, calls, i, k, rollbackOk) ==
    IF i > Len(calls) THEN db
    ELSE LET ok == IF calls[i] = "ROLLBACK" THEN rollbackOk ELSE i # k
             script == Script(variant, nRows)
         IN Run(Exec(db, calls[i], Records(variant, nRows, script, i), ok),
                variant, nRows, calls, i + 1, k, rollbackOk)

\* a helper that logs the failure of a load call and returns
Attempt_LoadFailureLogged(variant, nRows, k, rollbackOk) ==
    LET script == Script(variant, nRows)
        issued == Issued(variant, script, IF k > Len(script) THEN 0 ELSE k)
    IN [error |-> IF k \in 1..Len(script) /\ script[k] \notin LoadCalls
                  THEN WarehouseError ELSE NoError,
        calls |-> issued]

\* a helper that releases the connection and deletes the file at the end of its
\* try block, not in a finally block
Attempt_NoFinally(variant, nRows, k, rollbackOk) ==
    LET script == Script(variant, nRows)
        issued == Issued(variant, script, IF k > Len(script) THEN 0 ELSE k)
        failed == k \in 1..Len(script)
        cleanup == IF variant \in {"postgres", "redshift"} THEN <<"release">>
                   ELSE IF variant = "snowflake" THEN <<"unlink">> ELSE <<>>
    IN IF ~failed THEN [error |-> NoError, calls |-> issued \o cleanup]
       ELSE IF k = 1 /\ variant \in {"postgres", "redshift"}
            THEN [error |-> ConnectError, calls |-> issued]
       ELSE IF variant = "postgres"
            THEN [error |-> IF rollbackOk THEN WarehouseError ELSE RollbackError,
                  calls |-> issued \o <<"ROLLBACK">>]
       ELSE [error |-> WarehouseError, calls |-> issued]

\* the calls the helper makes and the error it throws
Attempt(variant, nRows, k, rollbackOk) ==
    LET script == Script(variant, nRows)
        issued == Issued(variant, script, IF k > Len(script) THEN 0 ELSE k)
        failed == k \in 1..Len(script)
    IN CASE variant = "postgres" ->
              IF ~failed THEN [error |-> NoError, calls |-> issued \o <<"release">>]
              ELSE IF k = 1 THEN [error |-> ConnectError, calls |-> issued]
              ELSE [error |-> IF rollbackOk THEN WarehouseError ELSE RollbackError,
                    calls |-> issued \o <<"ROLLBACK", "release">>]
         [] variant = "redshift" ->
              IF ~failed THEN [error |-> NoError, calls |-> issued \o <<"release">>]
              ELSE IF k = 1 THEN [error |-> ConnectError, calls |-> issued]
              ELSE [error |-> WarehouseError, calls |-> issued \o <<"release">>]
         [] variant = "bigquery" ->
              [error |-> IF failed THEN WarehouseError ELSE NoError, calls |-> issued]
         [] variant = "snowflake" ->
              IF ~failed THEN [error |-> NoError, calls |-> issued \o <<"unlink">>]
              ELSE IF k <= 2 THEN [error |-> WarehouseError, calls |-> issued]
              ELSE [error |-> WarehouseError, calls |-> issued \o <<"unlink">>]

\* createTableFromData of the four helpers: what the caller gets, the backend
\* calls made, the rows each issued load call carries and the table other
\* sessions see afterwards, when call number k fails (k = 0: none) and the
\* ROLLBACK of the Postgres helper succeeds or not
createTableFromData(variant, nRows, k, rollbackOk) ==
    IF RejectsEmpty(nRows)
    THEN [error |-> EmptyDataError, calls |-> <<>>, failed |-> 0, loads |-> <<>>,
          table |-> NoTable]
    ELSE LET done == Attempt(variant, nRows, k, rollbackOk)
             failed == IF k > Len(Script(variant, nRows)) THEN 0 ELSE k
             issued == Cardinality({i \in DOMAIN done.calls : done.calls[i] \in LoadCalls})
         IN [error |-> done.error, calls |-> done.calls, failed |-> failed,
             loads |-> SubSeq(Carried(variant, nRows), 1, issued),
             table |-> Run(NoDatabase, variant, nRows, done.calls, 1, failed,
                           rollbackOk).visible]

\* a helper's createTableFromData is called with call.arg.nRows rows
CreateTableFromData ==
    /\ call.fn = "createTableFromData"
    /\ call.out = NULL
    /\ \E k \in 0..(MaxBatches + 4), rollbackOk \in BOOLEAN :
          call' = [call EXCEPT !.out = createTableFromData(call.arg.variant, call.arg.nRows,
                                                           k, rollbackOk)]
    /\ UNCHANGED <<clock, uploads, stores, ing, resp>>

(* ---------------- warehouse adapters: column types ---------------- *)
\* the types detectColumnType returns
SemanticTypes == {"string", "number", "date", "boolean"}

\* the column inferColumnTypes pushes for a detected type, which createFromFile
\* hands to createTableFromData as it is
InferredColumn(type) == [type |-> type, displayType |-> mapToWarehouseType(type)]

\* the field of the column the helpers' statement builders read: col.type
ColumnTypeField(column) == column.type

\* mapColumnType of the four helpers
mapColumnType(variant, type) ==
    CASE variant = "postgres" ->
            (CASE type = "STRING" -> "TEXT"
               [] type = "NUMERIC" -> "FLOAT8"
               [] type = "TIMESTAMP" -> "TIMESTAMP"
               [] type = "BOOLEAN" -> "BOOLEAN"
               [] OTHER -> "TEXT")
      [] variant = "bigquery" ->
            (CASE type = "STRING" -> "STRING"
               [] type = "NUMERIC" -> "FLOAT64"
               [] type = "TIMESTAMP" -> "TIMESTAMP"
               [] type = "BOOLEAN" -> "BOOLEAN"
               [] OTHER -> "STRING")
      [] variant = "redshift" ->
            (CASE type = "STRING" -> "VARCHAR(MAX)"
               [] type = "NUMERIC" -> "FLOAT8"
               [] type = "TIMESTAMP" -> "TIMESTAMP"
               [] type = "BOOLEAN" -> "BOOLEAN"
               [] OTHER -> "VARCHAR(MAX)")
      [] variant = "snowflake" ->
            (CASE type = "STRING" -> "VARCHAR"
               [] type = "NUMERIC" -> "FLOAT"
               [] type = "TIMESTAMP" -> "TIMESTAMP"
               [] type = "BOOLEAN" -> "BOOLEAN"
               [] OTHER -> "VARCHAR")

\* the type of the physical column in the statement or schema a helper builds
\* for a column
columnDef(variant, column) ==
    [name |-> "column", type |-> mapColumnType(variant, ColumnTypeField(column))]

\* a helper builds the definition of a column createFromFile handed to it
BuildColumnDef ==
    /\ call.fn = "columnDef"
    /\ call.out = NULL
    /\ call' = [call EXCEPT !.out = columnDef(call.arg.variant, call.arg.column)]
    /\ UNCHANGED <<clock, uploads, stores, ing, resp>>

(* ---------------- warehouse adapters: the values of a loaded row ---------------- *)
\* the header names of the columns handed to an adapter
ColumnNames == {Merged(x) : x \in ShortNames(2)}

\* the values of a parsed cell: null / undefined, or a value
CellValues == {NULL, <<"value">>}

\* the property of the row object from which the value of column `name` is
\* taken: the SQL helpers read row[col.name]; the Snowflake helper maps the
\* columns to their sanitized names first and reads row[name] with those; the
\* BigQuery helper hands the row objects to table.insert, which looks for the
\* field names of the schema, sanitizeColumnName(column.name)
ValueKey(variant, name) ==
    CASE variant \in {"postgres", "redshift"} -> name
      [] variant = "snowflake" -> sanitizeColumnName(name, SnowflakeLimit)
      [] variant = "bigquery" -> sanitizeColumnName(name, BigQueryLimit)

\* what the column `name` of the table holds for a row whose cell under the
\* header `name` is `value`: a property the row does not have reads as
\* undefined and is loaded as NULL; a row object with a property that is no
\* field of the schema is rejected by table.insert
loadValue(variant, name, value) ==
    LET key == ValueKey(variant, name) IN
    [error |-> IF variant = "bigquery" /\ key # name THEN WarehouseError ELSE NoError,
     value |-> IF key = name THEN value ELSE NULL]

\* a helper loads a row with one column
LoadValue ==
    /\ call.fn = "loadValue"
    /\ call.out = NULL
    /\ call' = [call EXCEPT !.out = loadValue(call.arg.variant, call.arg.name, call.arg.value)]
    /\ UNCHANGED <<clock, uploads, stores, ing, resp>>

(* ---------------- the staged-file helper: two loads at the same time ---------------- *)
\* two createTableFromData calls of the Snowflake helper, for two tables, each
\* with the rows of its own upload
Loads == {1, 2}

\* fs.unlinkSync / PUT on a path that has no file
NoSuchFileError == "ENOENT: no such file or directory"

\* no file at a path, nothing staged, no table
Nothing == <<"nothing", 0>>
\* a table that was created and not loaded
EmptyTable == <<"empty", 0>>
\* the rows of the upload of load i, as a file, a staged file or a table holds them
RowsOf(i) == <<"rows", i>>

\* the two calls at their start: `pc` is the call each one makes next, `csvPath`
\* the path writeRowsToCSV returned, `files` what the temporary directory holds
\* under each path, `staged` and
\* `tables` what the stage and the table of each load hold
StagedLoadsInit ==
    [pc |-> [i \in Loads |-> "CREATE TABLE"],
     csvPath |-> [i \in Loads |-> NULL],
     error |-> [i \in Loads |-> NoError],
     files |-> [t \in 0..MaxClock |-> Nothing],
     staged |-> [i \in Loads |-> Nothing],
     tables |-> [i \in Loads |-> Nothing]]

\* path.join(os.tmpdir(), `adhoc_${Date.now()}.csv`)
csvPathAt(now) == <<now>>

\* the load i goes on with the call `next`, having failed with `err` or not
StagedStep(st, i, next, err) ==
    [st EXCEPT !.pc[i] = next,
               !.error[i] = IF err # NoError /\ @ = NoError THEN err ELSE @]

\* await this.executeStatement(createTableSql): a failure leaves the try block
\* before any file is written
StagedCreate(i) ==
    /\ call.fn = "stagedLoads"
    /\ call.out.pc[i] = "CREATE TABLE"
    /\ \E ok \in BOOLEAN :
          call' = [call EXCEPT !.out =
              IF ok THEN StagedStep([@ EXCEPT !.tables[i] = EmptyTable], i, "writeFile", NoError)
              ELSE StagedStep(@, i, "thrown", WarehouseError)]
    /\ UNCHANGED <<clock, uploads, stores, ing, resp>>

\* writeRowsToCSV: fs.writeFileSync(csvPath, csvContent) on the path named
\* after the current millisecond, replacing what is there
StagedWrite(i) ==
    /\ call.fn = "stagedLoads"
    /\ call.out.pc[i] = "writeFile"
    /\ call' = [call EXCEPT !.out =
          StagedStep([@ EXCEPT !.csvPath[i] = csvPathAt(clock), !.files[clock] = RowsOf(i)],
                     i, "PUT", NoError)]
    /\ UNCHANGED <<clock, uploads, stores, ing, resp>>

\* stageFile: PUT file://<csvPath> @~/<tableName>_stage uploads what the path
\* holds when the statement runs; a failure goes to the finally block
StagedPut(i) ==
    /\ call.fn = "stagedLoads"
    /\ call.out.pc[i] = "PUT"
    /\ LET held == call.out.files[call.out.csvPath[i][1]] IN
        \E ok \in BOOLEAN :
          call' = [call EXCEPT !.out =
              IF held = Nothing THEN StagedStep(@, i, "unlink", NoSuchFileError)
              ELSE IF ok THEN StagedStep([@ EXCEPT !.staged[i] = held], i, "COPY INTO", NoError)
              ELSE StagedStep(@, i, "unlink", WarehouseError)]
    /\ UNCHANGED <<clock, uploads, stores, ing, resp>>

\* executeStatement(loadSql): COPY INTO the table FROM its stage
StagedCopy(i) ==
    /\ call.fn = "stagedLoads"
    /\ call.out.pc[i] = "COPY INTO"
    /\ \E ok \in BOOLEAN :
          call' = [call EXCEPT !.out =
              IF ok THEN StagedStep([@ EXCEPT !.tables[i] = call.out.staged[i]], i, "unlink",
                                    NoError)
              ELSE StagedStep(@, i, "unlink", WarehouseError)]
    /\ UNCHANGED <<clock, uploads, stores, ing, resp>>

\* finally { fs.unlinkSync(csvPath) }: throws when the path has no file, and
\* the catch block around it rethrows whatever left the try block
StagedUnlink(i) ==
    /\ call.fn = "stagedLoads"
    /\ call.out.pc[i] = "unlink"
    /\ LET path == call.out.csvPath[i][1]
           held == call.out.files[path]
       IN call' = [call EXCEPT !.out =
              IF held = Nothing
              THEN [@ EXCEPT !.pc[i] = "thrown", !.error[i] = NoSuchFileError]
              ELSE [@ EXCEPT !.files[path] = Nothing,
                             !.pc[i] = IF call.out.error[i] = NoError THEN "returned"
                                       ELSE "thrown"]]
    /\ UNCHANGED <<clock, uploads, stores, ing, resp>>

(* ---------------- the physical table name, character by character ---------------- *)
\* the string 'adhoc'
AdhocText ==
    <<[cell |-> "a", n |-> 1], [cell |-> "d", n |-> 1], [cell |-> "h", n |-> 1],
      [cell |-> "o", n |-> 1], [cell |-> "c", n |-> 1]>>

\* Date.now().toString(36): eight characters of [0-9a-z] (from 1972 to 2059),
\* taken here as all equal
TimestampText == <<[cell |-> "l", n |-> 8]>>

\* .slice(0, 50) of generateWarehouseTableName
DisplayNameLimit == 50

\* generateWarehouseTableName as a string: `adhoc_${sanitized}_${userPrefix}_${timestamp}`
warehouseTableNameText(tableName, userPrefix, timestamp) ==
    LET legal == LowerCase \cup Digits \cup {"_"}
        sanitized == slice(replaceAll(toLowerCase(tableName), legal, "_"), DisplayNameLimit)
        sep == <<[cell |-> "_", n |-> 1]>>
    IN Merged(AdhocText \o sep \o sanitized \o sep \o userPrefix \o sep \o timestamp)

\* the identifier under which the adapter creates the table `name`: the SQL
\* helpers write sanitizeTableName(tableName) into CREATE TABLE, the BigQuery
\* helper hands tableName to dataset.createTable
CreatedAs(variant, name) ==
    CASE variant = "postgres" -> sanitizeTableName(name, PostgresLimit)
      [] variant = "redshift" -> sanitizeTableName(name, RedshiftLimit)
      [] variant = "snowflake" -> sanitizeTableName(name, SnowflakeLimit)
      [] variant = "bigquery" -> name

\* generateWarehouseTableName is called on a display name, and each adapter
\* builds its CREATE TABLE for the name it returns
GenerateWarehouseTableName ==
    /\ call.fn = "generateWarehouseTableName"
    /\ call.out = NULL
    /\ \E userPrefix \in UuidPrefixes :
          LET name == warehouseTableNameText(call.arg, userPrefix, TimestampText) IN
          call' = [call EXCEPT !.out =
                      [name |-> name,
                       created |-> [v \in Adapters |-> CreatedAs(v, name)]]]
    /\ UNCHANGED <<clock, uploads, stores, ing, resp>>

(* ---------------- the metadata record ---------------- *)
\* gen_random_uuid(): a uuid no row has
FreshUuid == Cardinality(DOMAIN adhoc_tables) + 1

\* request.file.toString(): the bytes of the file as text. Every file of
\* the model is shorter than the 255 characters slice(0, 255) keeps.
toString(file) ==
    IF file.malformed THEN <<"\"id">>
    ELSE <<"id,active">> \o [i \in 1..file.nRows |-> "1,true"]

\* the row createFromFile inserts into adhoc_tables
NewRow ==
    [uuid |-> FreshUuid,
     project_uuid |-> ing.projectUuid,
     name |-> ing.request.tableName,
     warehouse_table_name |-> ing.warehouseTableName,
     warehouse_type |-> WarehouseTypeOf(ing.projectUuid),
     scope |-> ing.request.scope,
     retention |-> ing.request.retention,
     retention_days |-> ing.request.retentionDays,
     created_by |-> ing.userUuid,
     updated_at |-> clock,
     deleted_at |-> NULL,
     metadata |-> [fileName |-> toString(ing.request.file),
                   columnCount |-> Len(Headers), rowCount |-> ing.rows]]

\* createFromFile after the insert: a rejected insert throws out of createFromFile
AfterPersist(ok) == IF ok THEN "SchemaRegistering" ELSE "Failed"

\* database('adhoc_tables').insert(...).returning('*')
InsertMetadata ==
    /\ ing.pc = "Persisting"
    /\ \E ok \in BOOLEAN :
        /\ adhoc_tables' = IF ok THEN adhoc_tables @@ (FreshUuid :> NewRow) ELSE adhoc_tables
        /\ LET pc2 == AfterPersist(ok)
               next == Goto(pc2, "persist", ok, DatabaseError)
           IN ing' = IF pc2 = "SchemaRegistering" /\ ok
                     THEN [next EXCEPT !.recordUuid = FreshUuid]
                     ELSE next
    /\ UNCHANGED <<clock, uploads, adhoc_table_access, warehouse, cached_explore,
                   catalog_search, resp, call>>

(* ---------------- AdhocTableService.registerExplore ---------------- *)
\* AdhocTableExploreService.generateExplore: one dimension per column and the
\* built-in row_count metric
generateExplore(adhocTableUuid, warehouseTableName) ==
    [name |-> adhocTableUuid, baseTable |-> adhocTableUuid, sqlTable |-> warehouseTableName,
     dimensions |-> {Headers[i] : i \in DOMAIN Headers}, metrics |-> {"row_count"}]

\* the cached_explore row of (project, name), as a set with at most one element
ExploreOf(projectUuid, name) ==
    {e \in cached_explore : e.project_uuid = projectUuid /\ e.name = name}

\* a cached_explore_uuid no row has
FreshExploreUuid == Cardinality(cached_explore) + 1

\* an upsert without its ON CONFLICT clause: every call inserts a row
UpsertExplore_InsertOnly(projectUuid, name, explore) ==
    cached_explore \cup
       {[project_uuid |-> projectUuid, name |-> name,
         cached_explore_uuid |-> FreshExploreUuid, explore |-> explore]}

\* insert(...).onConflict(['project_uuid', 'name']).merge(): the row of that key
\* is replaced in one statement and keeps its cached_explore_uuid
UpsertExplore(projectUuid, name, explore) ==
    LET old == ExploreOf(projectUuid, name)
        id == IF old = {} THEN FreshExploreUuid ELSE (CHOOSE e \in old : TRUE).cached_explore_uuid
    IN (cached_explore \ old) \cup
       {[project_uuid |-> projectUuid, name |-> name, cached_explore_uuid |-> id,
         explore |-> explore]}

\* a registerExplore call outside the try block: its failure fails the upload
AfterRegister_Uncaught(ok) == IF ok THEN "CatalogIndexing" ELSE "Failed"

\* createFromFile after registerExplore: its catch block logs the error and
\* falls through to the return
AfterRegister(ok) == IF ok THEN "CatalogIndexing" ELSE "Ready"

\* createFromFile after the catalog step: its catch block logs the error and
\* falls through to the return
AfterIndex(ok) == "Ready"

\* registerExplore inside createFromFile's try block
RegisterExplore ==
    /\ ing.pc = "SchemaRegistering"
    /\ \E ok \in BOOLEAN :
        LET next == UpsertExplore(ing.projectUuid, ing.recordUuid,
                                  generateExplore(ing.recordUuid, ing.warehouseTableName)) IN
        /\ cached_explore' = IF ok THEN next ELSE cached_explore
        /\ LET pc2 == AfterRegister(ok)
               to == Goto(pc2, "register", ok, DatabaseError)
           IN ing' = IF pc2 = "CatalogIndexing" /\ ok
                     THEN [to EXCEPT !.exploreUuid =
                              (CHOOSE e \in next : e.project_uuid = ing.projectUuid
                                                   /\ e.name = ing.recordUuid).cached_explore_uuid]
                     ELSE to
    /\ UNCHANGED <<clock, uploads, adhoc_tables, adhoc_table_access, warehouse,
                   catalog_search, resp, call>>

\* the table ids and warehouse table names registerExplore is called with
RegisteredTables == {1, 2}
WarehouseTableNames == {<<"adhoc", "sales", "u1", c>> : c \in 0..1}

\* registerExplore(projectUuid, adhocTableUuid, warehouseTableName, ...) called
\* on its own: the one upsert statement runs or is rejected; `replaced` tells
\* whether the statement met a row of the key
RegisterExploreCall(projectUuid, adhocTableUuid, warehouseTableName) ==
    /\ \E ok \in BOOLEAN :
        LET explore == generateExplore(adhocTableUuid, warehouseTableName)
            next == UpsertExplore(projectUuid, adhocTableUuid, explore)
            row == CHOOSE e \in next : /\ e.project_uuid = projectUuid
                                        /\ e.name = adhocTableUuid
                                        /\ e.explore = explore
        IN /\ cached_explore' = IF ok THEN next ELSE cached_explore
           /\ call' = [fn |-> "registerExplore",
                       arg |-> [projectUuid |-> projectUuid, adhocTableUuid |-> adhocTableUuid,
                                explore |-> explore],
                       out |-> IF ok
                               THEN [error |-> NoError,
                                     cached_explore_uuid |-> row.cached_explore_uuid,
                                     replaced |-> ExploreOf(projectUuid, adhocTableUuid) # {}]
                               ELSE [error |-> DatabaseError, cached_explore_uuid |-> 0,
                                     replaced |-> FALSE]]
    /\ UNCHANGED <<clock, uploads, adhoc_tables, adhoc_table_access, warehouse,
                   catalog_search, ing, resp>>

\* a reader of the Explore of (project, name): select ... where project_uuid = ?
\* and name = ? .first(), in its own statement
ReadExplore(projectUuid, name) ==
    /\ resp' = [op |-> "readExplore",
                error |-> IF ExploreOf(projectUuid, name) = {} THEN NotFoundError ELSE NoError]
    /\ UNCHANGED <<clock, uploads, stores, ing, call>>

(* ---------------- AdhocTableCatalogService ---------------- *)
\* the rows registerInCatalog inserts, in the order it inserts them: the table,
\* then each dimension, then each metric
CatalogEntries(projectUuid, cachedExploreUuid, explore, baseTableName) ==
    LET entry(n, t) == [project_uuid |-> projectUuid, cached_explore_uuid |-> cachedExploreUuid,
                        name |-> n, type |-> t, table_name |-> baseTableName]
        dims == [i \in DOMAIN Headers |-> entry(<<Headers[i]>>, "field")]
    IN <<entry(baseTableName, "table")>>
       \o SelectSeq(dims, LAMBDA d : d.name[1] \in explore.dimensions)
       \o <<entry(<<"row_count">>, "field")>>

\* the rows of the catalog with the key of the entry: (project_uuid, name,
\* cached_explore_uuid, type)
SameKey(catalog, entry) ==
    {c \in catalog : /\ c.project_uuid = entry.project_uuid
                      /\ c.name = entry.name
                      /\ c.cached_explore_uuid = entry.cached_explore_uuid
                      /\ c.type = entry.type}

\* the identity of a new row: one no row of the catalog has
FreshRow(catalog) ==
    CHOOSE r \in 1..(Cardinality(catalog) + 1) :
        /\ \A c \in catalog : c.rowid # r
        /\ \A q \in 1..(r - 1) : \E c \in catalog : c.rowid = q

\* an insert without its ON CONFLICT clause: every statement adds a row
UpsertCatalog_InsertOnly(catalog, entry) ==
    catalog \cup {[rowid |-> FreshRow(catalog)] @@ entry}

\* insert(entry).onConflict(['project_uuid', 'name', 'cached_explore_uuid',
\* 'type']).merge(): the row of the key takes the values of the entry, or the
\* entry becomes a new row
UpsertCatalog(catalog, entry) ==
    LET old == SameKey(catalog, entry)
        id == IF old = {} THEN FreshRow(catalog) ELSE (CHOOSE c \in old : TRUE).rowid
    IN (catalog \ old) \cup {[rowid |-> id] @@ entry}

\* the catalog after the first k upsert statements of the entries
RECURSIVE UpsertAll(_, _, _)
UpsertAll(catalog, entries, k) ==
    IF k = 0 THEN catalog
    ELSE UpsertCatalog(UpsertAll(catalog, entries, k - 1), entries[k])

\* registerInCatalog: one upsert statement per entry, keyed by (project_uuid, name,
\* cached_explore_uuid, type); the statements before a failing one stay
registerInCatalog(projectUuid, adhocTableUuid, baseTableName, k) ==
    LET found == ExploreOf(projectUuid, adhocTableUuid) IN
    IF found = {} THEN catalog_search
    ELSE LET ce == CHOOSE e \in found : TRUE
             entries == CatalogEntries(projectUuid, ce.cached_explore_uuid, ce.explore,
                                       baseTableName)
         IN UpsertAll(catalog_search, entries, IF k < Len(entries) THEN k ELSE Len(entries))

\* the number of statements of a complete registerInCatalog
NumCatalogEntries == Len(Headers) + 2

\* the catalog step of createFromFile: the explore is read back by its uuid and
\* registerInCatalog called; a failure is logged and the record returned
IndexCatalog ==
    /\ ing.pc = "CatalogIndexing"
    /\ \E k \in 0..NumCatalogEntries :
        LET explore == {e \in cached_explore : e.cached_explore_uuid = ing.exploreUuid} IN
        /\ catalog_search' = IF explore = {} THEN catalog_search
                             ELSE registerInCatalog(ing.projectUuid, ing.recordUuid,
                                                    ing.warehouseTableName, k)
        /\ ing' = Goto(AfterIndex(k = NumCatalogEntries), "index", k = NumCatalogEntries,
                       DatabaseError)
    /\ UNCHANGED <<clock, uploads, adhoc_tables, adhoc_table_access, warehouse,
                   cached_explore, resp, call>>

(* ---------------- createFromFile calls in flight together ---------------- *)
\* a createFromFile call that waits at one of its awaits while another runs
Suspended(other) == [fn |-> "createFromFile", arg |-> NULL, out |-> other]

\* a createFromFile call that has found its project and is about to parse
Started(projectUuid, userUuid, request) ==
    [IdleIng EXCEPT !.pc = "Parsing", !.projectUuid = projectUuid, !.userUuid = userUuid,
                    !.request = request, !.steps = << <<"project", "ok">> >>]

\* the event loop: the running createFromFile call waits at its await and the
\* suspended one goes on from its own
Resume ==
    /\ call.fn = "createFromFile"
    /\ ~(call.out.pc \in {"Ready", "Failed"})
    /\ ing' = call.out
    /\ call' = [call EXCEPT !.out = ing]
    /\ UNCHANGED <<clock, uploads, stores, resp>>

\* a removal that deletes by project only
removeFromCatalog_WholeProject(projectUuid, adhocTableUuid, ok) ==
    LET found == ExploreOf(projectUuid, adhocTableUuid) IN
    IF ~ok \/ found = {} THEN catalog_search
    ELSE {c \in catalog_search : c.project_uuid # projectUuid}

\* removeFromCatalog: every catalog row of the table's cached explore is deleted;
\* an error is logged and swallowed
removeFromCatalog(projectUuid, adhocTableUuid, ok) ==
    LET found == ExploreOf(projectUuid, adhocTableUuid) IN
    IF ~ok \/ found = {} THEN catalog_search
    ELSE {c \in catalog_search :
            ~(c.project_uuid = projectUuid
              /\ c.cached_explore_uuid = (CHOOSE e \in found : TRUE).cached_explore_uuid)}

\* registerInCatalog called on its own for the Explore of (project, table), with
\* the physical table name of the Explore as createFromFile passes it: the
\* first k statements run; without a cached explore it returns at once
RegisterInCatalogCall(projectUuid, adhocTableUuid) ==
    /\ \E k \in 0..NumCatalogEntries :
        LET found == ExploreOf(projectUuid, adhocTableUuid)
            baseTableName == IF found = {} THEN <<>>
                             ELSE (CHOOSE e \in found : TRUE).explore.sqlTable
        IN /\ catalog_search' = registerInCatalog(projectUuid, adhocTableUuid,
                                                  baseTableName, k)
           /\ call' = [fn |-> "registerInCatalog",
                       arg |-> [projectUuid |-> projectUuid,
                                adhocTableUuid |-> adhocTableUuid],
                       out |-> [error |-> IF found = {} \/ k = NumCatalogEntries
                                          THEN NoError ELSE DatabaseError,
                                done |-> found # {} /\ k = NumCatalogEntries]]
    /\ UNCHANGED <<clock, uploads, adhoc_tables, adhoc_table_access, warehouse,
                   cached_explore, ing, resp>>

\* removeFromCatalog called on its own: it never throws; `done` tells whether
\* its statements ran or an error was logged
RemoveFromCatalogCall(projectUuid, adhocTableUuid) ==
    /\ \E ok \in BOOLEAN :
        /\ catalog_search' = removeFromCatalog(projectUuid, adhocTableUuid, ok)
        /\ call' = [fn |-> "removeFromCatalog",
                    arg |-> [projectUuid |-> projectUuid, adhocTableUuid |-> adhocTableUuid],
                    out |-> [error |-> NoError, done |-> ok]]
    /\ UNCHANGED <<clock, uploads, adhoc_tables, adhoc_table_access, warehouse,
                   cached_explore, ing, resp>>

(* ---------------- AdhocTablePermissionService ---------------- *)
\* userCanAccessProject: a project_memberships row exists
userCanAccessProject(projectUuid, userUuid) ==
    <<projectUuid, userUuid>> \in project_memberships

\* the row of a table that is not deleted, as a sequence of length 0 or 1
\* (where uuid = ? and deleted_at is null)
LiveRow(tableUuid) ==
    IF tableUuid \in DOMAIN adhoc_tables /\ adhoc_tables[tableUuid].deleted_at = NULL
    THEN <<adhoc_tables[tableUuid]>> ELSE NULL

\* userCanAccessTable
userCanAccessTable(tableUuid, userUuid) ==
    LET table == LiveRow(tableUuid) IN
    IF table = NULL THEN FALSE
    ELSE IF table[1].created_by = userUuid THEN TRUE
    ELSE IF table[1].scope = "SHARED"
         THEN userCanAccessProject(table[1].project_uuid, userUuid)
    ELSE FALSE

\* an ownership check that only looks the table up
userCanDeleteTable_AnyUser(tableUuid, userUuid) == LiveRow(tableUuid) # NULL

\* userCanDeleteTable
userCanDeleteTable(tableUuid, userUuid) ==
    LET table == LiveRow(tableUuid) IN
    IF table = NULL THEN FALSE ELSE table[1].created_by = userUuid

\* a sharing check that lets every user share a table that is not deleted
userCanShareTable_Anyone(tableUuid, userUuid) == LiveRow(tableUuid) # NULL

\* userCanShareTable
userCanShareTable(tableUuid, userUuid) == userCanDeleteTable(tableUuid, userUuid)

\* the rows of adhoc_table_access of one (table, user)
GrantsOf(tableUuid, userUuid) ==
    {g \in adhoc_table_access : g.adhoc_table_uuid = tableUuid /\ g.user_uuid = userUuid}

\* the row grantTableAccess writes; role is left to its column default
GrantRow(tableUuid, userUuid, grantedByUserUuid) ==
    [adhoc_table_uuid |-> tableUuid, user_uuid |-> userUuid, role |-> "viewer",
     granted_by |-> grantedByUserUuid, granted_at |-> clock]

\* grantTableAccess: ForbiddenError unless the granter may share the table, then
\* insert(...).onConflict(['adhoc_table_uuid', 'user_uuid']).merge(), a statement
\* the database may reject
GrantTableAccess(tableUuid, userUuid, grantedByUserUuid) ==
    /\ IF ~userCanShareTable(tableUuid, grantedByUserUuid)
       THEN /\ resp' = [op |-> "grantTableAccess", error |-> ForbiddenError]
            /\ UNCHANGED adhoc_table_access
       ELSE \E ok \in BOOLEAN :
            /\ resp' = [op |-> "grantTableAccess",
                        error |-> IF ok THEN NoError ELSE DatabaseError]
            /\ adhoc_table_access' =
                  IF ok
                  THEN (adhoc_table_access \ GrantsOf(tableUuid, userUuid))
                       \cup {GrantRow(tableUuid, userUuid, grantedByUserUuid)}
                  ELSE adhoc_table_access
    /\ UNCHANGED <<clock, uploads, adhoc_tables, warehouse, cached_explore, catalog_search,
                   ing, call>>

\* revokeTableAccess: ForbiddenError unless the revoker may share the table, then
\* the rows of (table, user) are deleted, a statement the database may reject
RevokeTableAccess(tableUuid, userUuid, revokedByUserUuid) ==
    /\ IF ~userCanShareTable(tableUuid, revokedByUserUuid)
       THEN /\ resp' = [op |-> "revokeTableAccess", error |-> ForbiddenError]
            /\ UNCHANGED adhoc_table_access
       ELSE \E ok \in BOOLEAN :
            /\ resp' = [op |-> "revokeTableAccess",
                        error |-> IF ok THEN NoError ELSE DatabaseError]
            /\ adhoc_table_access' =
                  IF ok THEN adhoc_table_access \ GrantsOf(tableUuid, userUuid)
                  ELSE adhoc_table_access
    /\ UNCHANGED <<clock, uploads, adhoc_tables, warehouse, cached_explore, catalog_search,
                   ing, call>>

(* ---------------- AdhocTableService: reads and delete ---------------- *)
\* a getTable without whereNull('deleted_at')
getTable_WithDeleted(tableUuid) ==
    IF tableUuid \in DOMAIN adhoc_tables THEN <<adhoc_tables[tableUuid]>> ELSE NULL

\* getTable(tableUuid): the record, or NULL
getTable(tableUuid) == LiveRow(tableUuid)

\* AdhocTableController.getTable: what the user `callerUuid` gets for GET /{tableUuid}
ControllerGetTable(callerUuid, tableUuid) == getTable(tableUuid)

\* the options of listByProject: scope (or "none") and includeDeleted
ListOptions == [scope : Scopes \cup {"none"}, includeDeleted : BOOLEAN]

\* listByProject: ForbiddenError for a non-member, else the uuids of the rows the
\* query selects (the order by created_at is left out)
listByProject(projectUuid, userUuid, options) ==
    IF ~userCanAccessProject(projectUuid, userUuid)
    THEN [error |-> ForbiddenError, records |-> {}]
    ELSE [error |-> NoError,
          records |->
            {t \in DOMAIN adhoc_tables :
                LET r == adhoc_tables[t] IN
                /\ r.project_uuid = projectUuid
                /\ r.deleted_at = NULL
                /\ (~options.includeDeleted => r.deleted_at = NULL)
                /\ IF options.scope = SCOPE_PERSONAL THEN r.created_by = userUuid
                   ELSE IF options.scope = SCOPE_SHARED THEN r.scope = SCOPE_SHARED
                   ELSE r.created_by = userUuid \/ r.scope = SCOPE_SHARED}]

\* listByProject as services/AdhocTableService/index.ts has it, the module the
\* controller imports: no membership check, and without a scope option no
\* filter on the creator or the scope
listByProject_index(projectUuid, userUuid, options) ==
    [error |-> NoError,
     records |->
        {t \in DOMAIN adhoc_tables :
            LET r == adhoc_tables[t] IN
            /\ r.project_uuid = projectUuid
            /\ r.deleted_at = NULL
            /\ (~options.includeDeleted => r.deleted_at = NULL)
            /\ IF options.scope = SCOPE_PERSONAL THEN r.created_by = userUuid
               ELSE IF options.scope = SCOPE_SHARED THEN r.scope = SCOPE_SHARED
               ELSE TRUE}]

\* AdhocTableController.listTables: GET /projects/{projectUuid}/adhoc-tables?scope=
ControllerListTables(callerUuid, projectUuid, scope) ==
    listByProject_index(projectUuid, callerUuid, [scope |-> scope, includeDeleted |-> FALSE])

\* the error deleteTable throws for this caller, or NoError
DeleteError(tableUuid, userUuid) ==
    IF getTable(tableUuid) = NULL THEN NotFoundError
    ELSE IF ~userCanDeleteTable(tableUuid, userUuid) THEN ForbiddenError
    ELSE NoError

\* a deleteTable that rethrows the failure of the catalog removal
DeleteTable_RemovalThrows(tableUuid, userUuid) ==
    /\ LET err == DeleteError(tableUuid, userUuid) IN
        IF err # NoError
        THEN /\ resp' = [op |-> "deleteTable", error |-> err]
             /\ UNCHANGED <<adhoc_tables, catalog_search>>
        ELSE /\ adhoc_tables' = [adhoc_tables EXCEPT ![tableUuid].deleted_at = <<clock>>,
                                                     ![tableUuid].updated_at = clock]
             /\ \E removalOk \in BOOLEAN :
                  /\ catalog_search' = removeFromCatalog(adhoc_tables[tableUuid].project_uuid,
                                                         tableUuid, removalOk)
                  /\ resp' = [op |-> "deleteTable",
                              error |-> IF removalOk THEN NoError ELSE DatabaseError]
    /\ UNCHANGED <<clock, uploads, adhoc_table_access, warehouse, cached_explore, ing, call>>

\* a deleteTable that purges: the row is removed and the warehouse table dropped
DeleteTable_Purge(tableUuid, userUuid) ==
    /\ LET err == DeleteError(tableUuid, userUuid) IN
        /\ resp' = [op |-> "deleteTable", error |-> err]
        /\ IF err # NoError
           THEN UNCHANGED <<adhoc_tables, catalog_search, warehouse>>
           ELSE /\ adhoc_tables' = [t \in DOMAIN adhoc_tables \ {tableUuid} |-> adhoc_tables[t]]
                /\ warehouse' = [n \in DOMAIN warehouse
                                       \ {adhoc_tables[tableUuid].warehouse_table_name}
                                   |-> warehouse[n]]
                /\ catalog_search' = removeFromCatalog(adhoc_tables[tableUuid].project_uuid,
                                                       tableUuid, TRUE)
    /\ UNCHANGED <<clock, uploads, adhoc_table_access, cached_explore, ing, call>>

\* deleteTable(tableUuid, userUuid): the tombstone, then the catalog removal,
\* which may fail without failing the call
DeleteTable(tableUuid, userUuid) ==
    /\ LET err == DeleteError(tableUuid, userUuid) IN
        /\ resp' = [op |-> "deleteTable", error |-> err]
        /\ IF err # NoError
           THEN UNCHANGED <<adhoc_tables, catalog_search>>
           ELSE /\ adhoc_tables' = [adhoc_tables EXCEPT ![tableUuid].deleted_at = <<clock>>,
                                                        ![tableUuid].updated_at = clock]
                /\ \E removalOk \in BOOLEAN :
                     catalog_search' = removeFromCatalog(adhoc_tables[tableUuid].project_uuid,
                                                         tableUuid, removalOk)
    /\ UNCHANGED <<clock, uploads, adhoc_table_access, warehouse, cached_explore, ing, call>>

(* ======================= the claims ======================= *)
\* the last entry of the step log of the createFromFile call
LastStep == IF ing.steps = <<>> THEN <<"none", "none">> ELSE ing.steps[Len(ing.steps)]

\* createFromFile has just done the step it logs as `entry`
JustDid(entry) ==
    /\ ing'.steps # ing.steps
    /\ ing'.steps # <<>>
    /\ ing'.steps[Len(ing'.steps)] = entry

\* C1: when the adapter's CREATE TABLE or its load fails, createFromFile throws
\* the warehouse error at that step, returns no record, and the step leaves the
\* metadata store, the Explore store and the catalog as they were.
C1_WarehouseFailureAborts ==
    [][(JustDid(<<"create", "failed">>) \/ JustDid(<<"load", "failed">>))
        => /\ ing'.pc = "Failed"
           /\ ing'.error = WarehouseError
           /\ ing'.recordUuid = 0
           /\ UNCHANGED <<adhoc_tables, cached_explore, catalog_search>>]_vars

\* a load that failed after the table was created
C1_Witness ==
    /\ ing.pc = "Failed"
    /\ ing.error = WarehouseError
    /\ LastStep = <<"load", "failed">>

\* C2: when registerExplore or the catalog step fails after the warehouse table
\* and the metadata record exist, createFromFile returns that record, and the
\* step changes neither the record nor the loaded warehouse table.
C2_RegistrationFailureDegrades ==
    [][(JustDid(<<"register", "failed">>) \/ JustDid(<<"index", "failed">>))
        => /\ ing'.pc = "Ready"
           /\ ing'.error = NoError
           /\ ing'.recordUuid = ing.recordUuid
           /\ ing.recordUuid \in DOMAIN adhoc_tables'
           /\ UNCHANGED <<adhoc_tables, warehouse>>
           /\ ing.warehouseTableName \in DOMAIN warehouse
           /\ warehouse[ing.warehouseTableName] = [rows |-> ing.rows, committed |-> TRUE]]_vars

\* the catalog step failed part-way and the record was returned
C2_Witness ==
    /\ ing.pc = "Ready"
    /\ LastStep = <<"index", "failed">>
    /\ ing.recordUuid \in DOMAIN adhoc_tables
    /\ catalog_search # {}

\* the order of the steps of one createFromFile call
StepOrder == <<"project", "parse", "infer", "create", "load", "persist", "register", "index">>

\* C3: the steps of one upload are logged in the order project lookup, parse,
\* infer, create, load, persist, register, index, each one after the previous
\* one succeeded; the load starts with the table created, the metadata insert
\* with the table fully loaded, the Explore registration with the record
\* persisted and the catalog step with the Explore registered.
C3_StepsInOrder ==
    /\ Len(ing.steps) <= Len(StepOrder)
    /\ \A i \in DOMAIN ing.steps :
          /\ ing.steps[i][1] = StepOrder[i]
          /\ i < Len(ing.steps) => ing.steps[i][2] = "ok"
    /\ ing.pc = "DataLoading" => ing.warehouseTableName \in DOMAIN warehouse
    /\ ing.pc = "Persisting" =>
          /\ ing.warehouseTableName \in DOMAIN warehouse
          /\ warehouse[ing.warehouseTableName] = [rows |-> ing.rows, committed |-> TRUE]
    /\ ing.pc = "SchemaRegistering" => ing.recordUuid \in DOMAIN adhoc_tables
    /\ ing.pc = "CatalogIndexing" => ExploreOf(ing.projectUuid, ing.recordUuid) # {}

\* an upload that went through every step
C3_Witness ==
    /\ ing.pc = "Ready"
    /\ Len(ing.steps) = Len(StepOrder)
    /\ LastStep = <<"index", "ok">>

\* the errors that say the upload has no data rows
EmptyInputErrors == {CsvEmptyError, ExcelEmptyError, UploadedEmptyError}

\* C4: the project lookup and the parse step change no store; a malformed or
\* header-only file makes createFromFile throw there, returning no record, and
\* for a header-only file the error is one of the empty-input errors.
C4_ParseFailureHasNoEffect ==
    [][/\ (IngFinished /\ uploads' # uploads) => UNCHANGED stores
       /\ (ing.pc = "Parsing" /\ ing' # ing) =>
            /\ UNCHANGED stores
            /\ (ing.request.file.malformed \/ ing.request.file.nRows = 0) =>
                  (ing'.pc = "Failed" /\ ing'.recordUuid = 0)
            /\ (~ing.request.file.malformed /\ ing.request.file.nRows = 0) =>
                  ing'.error \in EmptyInputErrors]_vars

\* a header-only upload was rejected and nothing exists
C4_Witness ==
    /\ ing.pc = "Failed"
    /\ ing.error \in EmptyInputErrors
    /\ LastStep = <<"parse", "failed">>
    /\ DOMAIN warehouse = {}
    /\ DOMAIN adhoc_tables = {}

\* a tombstoned row is invisible to getTable and to every listByProject call,
\* and deleteTable on it throws NotFoundError for every caller
C5_Invisible ==
    \A t \in DOMAIN adhoc_tables :
        adhoc_tables[t].deleted_at # NULL =>
            /\ getTable(t) = NULL
            /\ \A p \in Projects, u \in Users, o \in ListOptions :
                  t \notin listByProject(p, u, o).records
            /\ \A u \in Users : DeleteError(t, u) = NotFoundError

\* a successful deleteTable sets deleted_at; a tombstoned row stays as it is,
\* and a deleteTable on it changes nothing
C5_Kept ==
    /\ \A t \in DOMAIN adhoc_tables :
          adhoc_tables[t].deleted_at # NULL =>
              (t \in DOMAIN adhoc_tables' /\ adhoc_tables'[t] = adhoc_tables[t])
    /\ \A t \in 1..MaxUploads, u \in Users :
          DeleteTable(t, u) =>
              /\ resp'.error = NoError =>
                    (t \in DOMAIN adhoc_tables' /\ adhoc_tables'[t].deleted_at # NULL)
              /\ (t \in DOMAIN adhoc_tables /\ adhoc_tables[t].deleted_at # NULL) =>
                    (resp'.error = NotFoundError /\ UNCHANGED stores)

\* C5: once deleteTable succeeded for a table, getTable returns nothing for it
\* and no listByProject call lists it, whoever calls and whatever the options;
\* its row stays with deleted_at set and unchanged, and a later deleteTable on
\* it throws NotFoundError and changes nothing.
C5_SoftDeleteIsFinal == []C5_Invisible /\ [][C5_Kept]_vars

\* a second deleteTable on a tombstoned table was answered with NotFoundError
C5_Witness ==
    /\ \E t \in DOMAIN adhoc_tables : adhoc_tables[t].deleted_at # NULL
    /\ resp = [op |-> "deleteTable", error |-> NotFoundError]

\* the catalog rows of the table with uuid t
CatalogRowsOf(t) ==
    {c \in catalog_search :
        /\ c.project_uuid = adhoc_tables[t].project_uuid
        /\ c.table_name = adhoc_tables[t].warehouse_table_name}

\* C6: with no upload in progress, a table whose deleted_at is set has no
\* catalog row and no Explore.
C6_DeletedTableLeavesNothing ==
    IngFinished =>
        \A t \in DOMAIN adhoc_tables :
            adhoc_tables[t].deleted_at # NULL =>
                /\ CatalogRowsOf(t) = {}
                /\ ExploreOf(adhoc_tables[t].project_uuid, t) = {}

C8_IngestionChecksMembership ==
    /\ ing.pc \in {"DataLoading", "Persisting", "SchemaRegistering", "CatalogIndexing"} =>
          userCanAccessProject(ing.projectUuid, ing.userUuid)
    /\ \A t \in DOMAIN adhoc_tables :
          userCanAccessProject(adhoc_tables[t].project_uuid, adhoc_tables[t].created_by)

\* an AccessGrant row for this user on this table exists
HasGrant(tableUuid, userUuid) ==
    \E g \in adhoc_table_access : g.adhoc_table_uuid = tableUuid /\ g.user_uuid = userUuid

\* C9: for a table that is not deleted, userCanAccessTable is true exactly for
\* the creator, for a member of the project of a shared table, and for a user
\* with an AccessGrant.
C9_AccessRule ==
    \A t \in DOMAIN adhoc_tables, u \in Users :
        adhoc_tables[t].deleted_at = NULL =>
            (userCanAccessTable(t, u) <=>
                \/ adhoc_tables[t].created_by = u
                \/ (/\ adhoc_tables[t].scope = SCOPE_SHARED
                    /\ <<adhoc_tables[t].project_uuid, u>> \in project_memberships)
                \/ HasGrant(t, u))

\* C10: a personal table is returned by GET /{tableUuid} and by listByProject
\* only to its creator or to a user with an AccessGrant.
C10_PersonalIsPrivate ==
    \A t \in DOMAIN adhoc_tables, u \in Users :
        (/\ adhoc_tables[t].scope = SCOPE_PERSONAL
         /\ adhoc_tables[t].created_by # u
         /\ ~HasGrant(t, u)) =>
            /\ ControllerGetTable(u, t) = NULL
            /\ \A p \in Projects, o \in ListOptions : t \notin listByProject(p, u, o).records

\* what the listing `list` owes the tables of the store: a caller who is not a
\* member of a table's project gets ForbiddenError and no table when listing
\* that project, and a table is listed only under its own project, while it
\* is not deleted, and to its creator or, if it is shared, to any member
ListIsScoped(list(_, _, _)) ==
    \A t \in DOMAIN adhoc_tables, u \in Users, o \in ListOptions :
        LET row == adhoc_tables[t]
            own == list(row.project_uuid, u, o) IN
        /\ ~userCanAccessProject(row.project_uuid, u) =>
              (own.error = ForbiddenError /\ own.records = {})
        /\ \A p \in Projects :
              t \in list(p, u, o).records =>
                  /\ row.project_uuid = p
                  /\ row.deleted_at = NULL
                  /\ (row.created_by = u \/ row.scope = SCOPE_SHARED)

\* C11: listByProject, in both of its versions, fails with ForbiddenError and
\* returns no table to a caller who is not a member of the project, and returns
\* to a member only tables of that project that are not deleted and are
\* created by the caller or shared.
C11_ListingIsScoped ==
    /\ ListIsScoped(listByProject)
    /\ ListIsScoped(listByProject_index)

\* the version of listByProject that checks the membership keeps the rule
C11_CheckedListingIsScoped == ListIsScoped(listByProject)

\* C12: for a personal table that is not deleted and a member of its project
\* other than the creator, userCanAccessTable is false while the member has no
\* grant and true once the member has one.
C12_GrantOpensPersonalTable ==
    \A t \in DOMAIN adhoc_tables, u \in Users :
        (/\ adhoc_tables[t].deleted_at = NULL
         /\ adhoc_tables[t].scope = SCOPE_PERSONAL
         /\ adhoc_tables[t].created_by # u
         /\ userCanAccessProject(adhoc_tables[t].project_uuid, u)) =>
            (userCanAccessTable(t, u) <=> HasGrant(t, u))

\* C13: grantTableAccess and revokeTableAccess called by anyone but the table's
\* creator throw ForbiddenError and leave the grants as they are; the grants
\* change only in a call made by the creator of the table concerned; after a
\* revokeTableAccess that returned normally no grant of that (table, user) is left.
C13_OnlyOwnerGrantsAndRevokes ==
    [][/\ \A t \in 1..MaxUploads, u \in Users, g \in Users :
            /\ ((GrantTableAccess(t, u, g) \/ RevokeTableAccess(t, u, g))
                 /\ ~(t \in DOMAIN adhoc_tables /\ adhoc_tables[t].created_by = g))
                => (resp'.error = ForbiddenError /\ UNCHANGED adhoc_table_access)
            /\ (RevokeTableAccess(t, u, g) /\ resp'.error = NoError)
                => ~\E r \in adhoc_table_access' : r.adhoc_table_uuid = t /\ r.user_uuid = u
       /\ adhoc_table_access' # adhoc_table_access =>
            \E t \in DOMAIN adhoc_tables, u \in Users :
                \/ GrantTableAccess(t, u, adhoc_tables[t].created_by)
                \/ RevokeTableAccess(t, u, adhoc_tables[t].created_by)]_vars

\* a user who is not the creator tried to revoke a grant, which is still there
C13_Witness ==
    /\ resp = [op |-> "revokeTableAccess", error |-> ForbiddenError]
    /\ \E r \in adhoc_table_access :
          /\ r.adhoc_table_uuid \in DOMAIN adhoc_tables
          /\ adhoc_tables[r.adhoc_table_uuid].deleted_at = NULL

\* inferColumnTypes has returned the ColumnInference of a column
Inferred == call.fn = "inferColumnTypes" /\ call.out # NULL

\* the type the 80% rule gives a list of values: boolean before date before
\* number, else string
TypeByRule(values) ==
    LET hits(kinds) == Length(filter(values, kinds)) IN
    IF 100 * hits(BooleanCells) >= 80 * Length(values) THEN "boolean"
    ELSE IF 100 * hits(DateCells) >= 80 * Length(values) THEN "date"
    ELSE IF 100 * hits(NumberCells) >= 80 * Length(values) THEN "number"
    ELSE "string"

\* C14 (as amended): for every non-empty list of sampled values the inferred
\* type is boolean if the boolean literals are at least 80% of the values, else
\* date if the date patterns are, else number if the numeric strings are, else
\* string, so that a column of only 0 and 1 is boolean; for an empty list of
\* sampled values the inferred type is string.
C14_TypeByThreshold ==
    Inferred =>
        LET values == sampleValues(call.arg) IN
        call.out.type = IF Length(values) = 0 THEN "string" ELSE TypeByRule(values)

\* a sampled column of which 80 values are 0 or 1 and the rest is text, or of
\* only 0 and 1, was inferred as boolean
C14_Witness ==
    /\ Inferred
    /\ call.out.type = "boolean"
    /\ LET values == sampleValues(call.arg) IN
        /\ Length(values) > 0
        /\ 100 * Length(filter(values, {"bit"})) >= 80 * Length(values)
        /\ filter(values, {"word"}) = <<>>

\* C14 (as stated): for every list of sampled values, the empty list included,
\* the inferred type is the one the 80% rule gives.
C14_TypeByThresholdOnEveryList ==
    Inferred => call.out.type = TypeByRule(sampleValues(call.arg))

\* the first SampleRows values of the whole column that are neither missing,
\* null nor empty
FirstNonEmptyValues(rows) == slice(filter(rows, Cells \ Dropped), SampleRows)

\* C15: the values type inference classifies are the first 100 non-null,
\* non-empty values of the whole column.
C15_SampleSkipsEmptyRows ==
    Inferred => Merged(sampleValues(call.arg)) = Merged(FirstNonEmptyValues(call.arg))

\* C16: the inferred column is nullable exactly when some row of the column
\* has a missing, null or empty value.
C16_NullableIffMissingValue ==
    Inferred =>
        (call.out.nullable <=> \E i \in DOMAIN call.arg : call.arg[i].cell \in Dropped)

\* a sanitizer has returned
SanitizerReturned == call.fn \in Sanitizers /\ call.out # NULL

\* C17: every sanitizer is deterministic (a second call on the same name gives
\* the same identifier) and idempotent (sanitizing the identifier it returned
\* gives that identifier again), the truncation included.
C17_SanitizeIsIdempotent ==
    SanitizerReturned =>
        \A uuid \in UuidPrefixes :
            /\ Sanitized(call.fn, call.arg, uuid) = call.out
            /\ Sanitized(call.fn, call.out, uuid) = call.out

\* sanitizing the identifier a warehouse helper's sanitizer returned gives that
\* identifier again
C17_BackendSanitizeIsIdempotent ==
    (SanitizerReturned /\ call.fn # "explore") =>
        \A uuid \in UuidPrefixes : Sanitized(call.fn, call.out, uuid) = call.out

\* sanitizing the identifier the Explore field-name sanitizer returned gives
\* that identifier again
C17_FieldSanitizeIsIdempotent ==
    (SanitizerReturned /\ call.fn = "explore") =>
        \A uuid \in UuidPrefixes : Sanitized(call.fn, call.out, uuid) = call.out

\* C18: the sanitized identifier is never empty, holds only letters, digits
\* and underscores, and starts with a letter or an underscore; for a name that
\* starts with a digit it starts with an underscore.
C18_SanitizedIsLegal ==
    SanitizerReturned =>
        /\ call.out # <<>>
        /\ \A i \in DOMAIN call.out :
              call.out[i].cell \in LowerCase \cup UpperCase \cup Digits \cup {"_"}
        /\ call.out[1].cell \in LowerCase \cup UpperCase \cup {"_"}
        /\ (call.arg # <<>> /\ call.arg[1].cell \in Digits) => call.out[1].cell = "_"

\* the error the caller is to get for two names with one identifier
IdentifierCollisionError == "IdentifierCollisionError"

\* C19: when two distinct column names of an upload get the same identifier,
\* generateDimensions and buildCreateTableStatement report an identifier
\* collision; no column's dimension is overwritten by another column's.
C19_CollisionIsReported ==
    /\ (call.fn = "generateDimensions" /\ call.out # NULL) =>
          /\ call.out.error = NoError =>
                Cardinality(DOMAIN call.out.dimensions) = Len(call.arg)
          /\ (\A u1, u2 \in UuidPrefixes :
                 sanitizeFieldName(call.arg[1], u1) = sanitizeFieldName(call.arg[2], u2))
                => call.out.error = IdentifierCollisionError
    /\ (call.fn = "buildCreateTableStatement" /\ call.out # NULL) =>
          (call.out.columns[1] = call.out.columns[2]
              => call.out.error = IdentifierCollisionError)

\* C20: a helper's createTableFromData called with no rows fails with the
\* empty-data error and has made no backend call: no connection, no statement,
\* no API request, no file.
C20_EmptyInputMakesNoCall ==
    (call.fn = "createTableFromData" /\ call.out # NULL /\ call.arg.nRows = 0) =>
        /\ call.out.error = EmptyDataError
        /\ call.out.calls = <<>>

\* every helper has been called with no rows and has refused, and the same
\* helper with rows reaches its backend
C20_Witness ==
    /\ call.fn = "createTableFromData"
    /\ call.out # NULL
    /\ call.arg.nRows = 0
    /\ call.out.error = EmptyDataError
    /\ \A v \in Adapters : createTableFromData(v, 1, 0, TRUE).calls # <<>>

\* a helper's createTableFromData has returned or thrown
AdapterReturned == call.fn = "createTableFromData" /\ call.out # NULL

\* the call of the script that failed in the call of the helper, or "none"
FailedCall ==
    IF call.out.failed = 0 THEN "none"
    ELSE Script(call.arg.variant, call.arg.nRows)[call.out.failed]

\* C21: the Postgres helper is all-or-nothing: when CREATE TABLE or an INSERT
\* batch fails, ROLLBACK is issued, the caller gets an error and neither the
\* table nor any row is visible; the table is visible only when no call failed,
\* and then with every row.
C21_TransactionIsAllOrNothing ==
    (AdapterReturned /\ call.arg.variant = "postgres") =>
        /\ FailedCall \in {"CREATE TABLE", "INSERT"} =>
              /\ call.out.error # NoError
              /\ \E i \in DOMAIN call.out.calls : call.out.calls[i] = "ROLLBACK"
              /\ call.out.table = NoTable
        /\ call.out.table.exists =>
              /\ FailedCall = "none"
              /\ call.out.error = NoError
              /\ call.out.table.rows = call.arg.nRows

\* an INSERT batch of a Postgres upload of several batches has failed and the
\* table is not there
C21_Witness ==
    /\ AdapterReturned
    /\ call.arg.variant = "postgres"
    /\ call.arg.nRows > BatchSize
    /\ FailedCall = "INSERT"
    /\ call.out.table = NoTable
    /\ createTableFromData("postgres", call.arg.nRows, 0, TRUE).table.exists

\* the calls of a helper that come before any row is carried to the backend
CreationCalls == {"connect", "BEGIN", "CREATE TABLE", "createTable"}

\* C22: in every helper, when the table was created and a later step of the
\* load fails (an INSERT batch, the writing or staging of the file, the copy,
\* the API insert, the commit), the caller gets an error; a call that returns
\* without error has loaded every row.
C22_LoadFailureIsSignalled ==
    AdapterReturned =>
        /\ FailedCall \notin CreationCalls \cup {"none"} => call.out.error # NoError
        /\ (call.out.error = NoError /\ call.arg.nRows > 0) =>
              /\ call.out.table.exists
              /\ call.out.table.rows >= call.arg.nRows

\* a later INSERT batch of the Redshift helper has failed: the table is left
\* with the rows of the earlier batches and the caller has an error
C22_Witness ==
    /\ AdapterReturned
    /\ call.arg.variant = "redshift"
    /\ FailedCall = "INSERT"
    /\ call.out.table.exists
    /\ call.out.table.rows > 0
    /\ call.out.table.rows < call.arg.nRows
    /\ call.out.error = WarehouseError

\* the load calls carry at most BatchSize rows each and, when all were issued,
\* carry the rows 0 .. nRows - 1 once each in the order of issue
LoadsAreBatched ==
    LET loads == call.out.loads IN
    /\ \A b \in DOMAIN loads : loads[b].to - loads[b].from <= BatchSize
    /\ \A b \in DOMAIN loads : loads[b].from = (IF b = 1 THEN 0 ELSE loads[b - 1].to)
    /\ (call.out.failed = 0 /\ call.arg.nRows > 0) =>
          (loads # <<>> /\ loads[Len(loads)].to = call.arg.nRows)

\* C23: in every helper no load statement or API request carries more than
\* 1000 rows, and the batches in the order of issue hold every input row once.
C23_LoadsAreBatched == AdapterReturned => LoadsAreBatched

\* the Postgres and Redshift helpers load in batches of at most 1000 rows that
\* hold every input row once
C23_SqlLoadsAreBatched ==
    (AdapterReturned /\ call.arg.variant \in {"postgres", "redshift"}) => LoadsAreBatched

\* the backend types of the 64-bit float family, the timestamp types, the
\* boolean types and the unbounded text types
FloatTypes == {"FLOAT8", "FLOAT64", "FLOAT"}
TimestampTypes == {"TIMESTAMP"}
BooleanTypes == {"BOOLEAN"}
TextTypes == {"TEXT", "STRING", "VARCHAR(MAX)", "VARCHAR"}

\* the backend types the semantic type stands for
BackendTypes(type) ==
    CASE type = "number" -> FloatTypes
      [] type = "date" -> TimestampTypes
      [] type = "boolean" -> BooleanTypes
      [] type = "string" -> TextTypes

\* C24: in every helper the physical column of a column that type inference
\* produced gets the backend's type for its semantic type: a float for number,
\* a timestamp for date, a boolean for boolean, unbounded text for string.
C24_ColumnTypeFollowsSemanticType ==
    (call.fn = "columnDef" /\ call.out # NULL) =>
        call.out.type \in BackendTypes(call.arg.column.type)

\* mapColumnType gives the backend's type when it is handed the warehouse type
\* name that inference stores in displayType
C24_DisplayTypeIsMapped ==
    (call.fn = "columnDef" /\ call.out # NULL) =>
        mapColumnType(call.arg.variant, call.arg.column.displayType)
            \in BackendTypes(call.arg.column.type)

\* the Explore has one dimension for every column, named by the sanitized
\* column name and typed by mapColumnTypeToDimensionType, and the one metric
\* row_count
OneDimensionPerColumn ==
    /\ Cardinality(DOMAIN call.out.dimensions) = Len(call.arg.names)
    /\ \A i \in DOMAIN call.arg.names :
          \E uuid \in UuidPrefixes :
              LET name == sanitizeFieldName(call.arg.names[i], uuid) IN
              /\ name \in DOMAIN call.out.dimensions
              /\ call.out.dimensions[name].name = name
              /\ call.out.dimensions[name].label = call.arg.names[i]
              /\ call.out.dimensions[name].type
                    = mapColumnTypeToDimensionType(call.arg.types[i])
    /\ DOMAIN call.out.metrics = {"row_count"}
    /\ call.out.metrics["row_count"].type = "MetricType.COUNT"

\* C25: for every column list the generated Explore has exactly one dimension
\* per column, named by the sanitized column name and typed by the fixed map
\* from semantic types, and exactly one row-count metric.
C25_OneDimensionPerColumn ==
    (call.fn = "generateExplore" /\ call.out # NULL) => OneDimensionPerColumn

\* the same for the column lists whose names get different field names
C25_OneDimensionPerDistinctName ==
    (/\ call.fn = "generateExplore"
     /\ call.out # NULL
     /\ \A u1, u2 \in UuidPrefixes :
           sanitizeFieldName(call.arg.names[1], u1) # sanitizeFieldName(call.arg.names[2], u2)
           \/ (u1 # u2 /\ sanitizeFieldName(call.arg.names[1], u1)
                             # sanitizeFieldName(call.arg.names[1], u2)))
        => OneDimensionPerColumn

\* C26: there is at most one Explore per (project, table id); a registerExplore
\* that succeeds leaves exactly one, equal to the one it registered, and changes
\* no other key's; one that fails changes nothing; and an Explore that is there
\* is there after every step, so that no reader finds it missing during a
\* re-registration.
C26_RegistrationIsAnUpsert ==
    /\ [](\A p \in Projects, n \in RegisteredTables : Cardinality(ExploreOf(p, n)) <= 1)
    /\ [][\A p \in Projects, n \in RegisteredTables :
             ExploreOf(p, n) # {} => ExploreOf(p, n)' # {}]_vars
    /\ [][(call'.fn = "registerExplore" /\ call' # call) =>
            IF call'.out.error # NoError THEN cached_explore' = cached_explore
            ELSE /\ {e \in cached_explore' : /\ e.project_uuid = call'.arg.projectUuid
                                              /\ e.name = call'.arg.adhocTableUuid}
                      = {[project_uuid |-> call'.arg.projectUuid,
                          name |-> call'.arg.adhocTableUuid,
                          cached_explore_uuid |-> call'.out.cached_explore_uuid,
                          explore |-> call'.arg.explore]}
                 /\ \A p \in Projects, n \in RegisteredTables :
                       <<p, n>> # <<call'.arg.projectUuid, call'.arg.adhocTableUuid>>
                           => ExploreOf(p, n)' = ExploreOf(p, n)]_vars

\* a table has been registered again with another Explore, which took the
\* place of the earlier one, and a reader has found an Explore
C26_Witness ==
    /\ call.fn = "registerExplore"
    /\ call.out.error = NoError
    /\ call.out.replaced
    /\ ExploreOf(call.arg.projectUuid, call.arg.adhocTableUuid) # {}
    /\ Cardinality(cached_explore) > 1
    /\ resp.op = "readExplore"
    /\ resp.error = NoError

\* the Explore the last catalog call was about, as a set with at most one element
CalledExplore == ExploreOf(call.arg.projectUuid, call.arg.adhocTableUuid)

\* the catalog rows the Explore owns
OwnedBy(e) ==
    {c \in catalog_search : /\ c.project_uuid = e.project_uuid
                             /\ c.cached_explore_uuid = e.cached_explore_uuid}

\* C27: after a registerInCatalog that ran to its end, indexing the same
\* Explore again changes nothing, the Explore owns exactly one table entry and
\* exactly one field entry per dimension, and no two catalog rows have the same
\* (project, name, owning Explore, entry type).
C27_IndexingIsIdempotent ==
    (call.fn = "registerInCatalog" /\ call.out.done) =>
        LET e == CHOOSE x \in CalledExplore : TRUE IN
        /\ registerInCatalog(e.project_uuid, e.name, e.explore.sqlTable, NumCatalogEntries)
              = catalog_search
        /\ Cardinality({c \in OwnedBy(e) : c.type = "table"}) = 1
        /\ \A d \in e.explore.dimensions :
              Cardinality({c \in OwnedBy(e) : c.type = "field" /\ c.name = <<d>>}) = 1
        /\ \A c \in catalog_search : SameKey(catalog_search, c) = {c}

\* an Explore whose entries were all in the catalog has been indexed again: its
\* entries are the first rows of the catalog, another Explore's came after
\* them, and the last call indexed it to the end
C27_Witness ==
    /\ call.fn = "registerInCatalog"
    /\ call.out.done
    /\ Cardinality(OwnedBy(CHOOSE x \in CalledExplore : TRUE)) = NumCatalogEntries
    /\ \A c \in OwnedBy(CHOOSE x \in CalledExplore : TRUE) : c.rowid <= NumCatalogEntries
    /\ \E c \in catalog_search : c.rowid > NumCatalogEntries

\* C28: a removeFromCatalog whose statements ran leaves no catalog entry owned
\* by the table's Explore; every removeFromCatalog leaves the entries owned by
\* other Explores as they were and adds none.
C28_RemovalIsFramed ==
    [][call'.fn = "removeFromCatalog" =>
          LET target == {e \in cached_explore :
                            /\ e.project_uuid = call'.arg.projectUuid
                            /\ e.name = call'.arg.adhocTableUuid}
              owned(c) == \E e \in target : /\ c.project_uuid = e.project_uuid
                                              /\ c.cached_explore_uuid = e.cached_explore_uuid
          IN /\ catalog_search' \subseteq catalog_search
             /\ \A c \in catalog_search :
                   IF owned(c) THEN (call'.out.done => c \notin catalog_search')
                   ELSE c \in catalog_search']_vars

\* the entries of one Explore have been removed while another Explore of the
\* same project keeps all of its entries
C28_Witness ==
    /\ call.fn = "removeFromCatalog"
    /\ call.out.done
    /\ CalledExplore # {}
    /\ OwnedBy(CHOOSE x \in CalledExplore : TRUE) = {}
    /\ \E e \in cached_explore :
          /\ e.project_uuid = call.arg.projectUuid
          /\ e.name # call.arg.adhocTableUuid
          /\ Cardinality(OwnedBy(e)) = NumCatalogEntries
    /\ \E c \in catalog_search : c.rowid > NumCatalogEntries

\* the ids deleteTable is called with: the uploaded tables and an unknown id
DeleteIds == {1, 2, 3}

\* the Explore of the table with uuid t, as a set with at most one element
TableExplore(t) ==
    IF t \in DOMAIN adhoc_tables THEN ExploreOf(adhoc_tables[t].project_uuid, t) ELSE {}

\* the caller may delete the table: it is there, live, and the caller's
MayDelete(t, u) ==
    /\ t \in DOMAIN adhoc_tables
    /\ adhoc_tables[t].deleted_at = NULL
    /\ adhoc_tables[t].created_by = u

\* C29: an authorized deleteTable returns without error and sets deleted_at,
\* also when the catalog removal failed and the table's entries are still there.
C29_RemovalFailureDoesNotBlockDelete ==
    [][\A t \in DeleteIds, u \in Users :
          (DeleteTable(t, u) /\ MayDelete(t, u)) =>
              /\ resp'.error = NoError
              /\ adhoc_tables'[t].deleted_at # NULL]_vars

\* a table was deleted without error while its catalog entries stayed: the
\* removal had failed
C29_Witness ==
    /\ resp = [op |-> "deleteTable", error |-> NoError]
    /\ \E t \in DOMAIN adhoc_tables :
          /\ adhoc_tables[t].deleted_at # NULL
          /\ \E e \in TableExplore(t) : Cardinality(OwnedBy(e)) = NumCatalogEntries

C31_PhysicalNameIsUnique ==
    /\ [](call.fn = "createFromFile" =>
            (/\ ing.warehouseTableName # NULL
             /\ call.out.warehouseTableName # NULL
             /\ ing.projectUuid = call.out.projectUuid
             => ing.warehouseTableName # call.out.warehouseTableName))
    /\ [][\A t \in DOMAIN adhoc_tables :
            adhoc_tables'[t].warehouse_table_name = adhoc_tables[t].warehouse_table_name]_vars

\* C31, the part the code keeps: the physical table name of a record never
\* changes, and no two records of one project carry the same one
C31_RecordNameIsKept ==
    /\ [](\A t, o \in DOMAIN adhoc_tables :
            /\ adhoc_tables[t].project_uuid = adhoc_tables[o].project_uuid
            /\ adhoc_tables[t].warehouse_table_name = adhoc_tables[o].warehouse_table_name
            => t = o)
    /\ [][\A t \in DOMAIN adhoc_tables :
            adhoc_tables'[t].warehouse_table_name = adhoc_tables[t].warehouse_table_name]_vars

\* C32: a table becomes SoftDeleted only after its ingestion has reached Ready:
\* in no interleaving of deleteTable with the running ingestion of the same
\* table is the table tombstoned before that ingestion has finished Explore
\* registration and catalog indexing
C32_DeleteOnlyAfterReady ==
    \A t \in DOMAIN adhoc_tables :
        adhoc_tables[t].deleted_at # NULL =>
            ~(ing.recordUuid = t /\ ing.pc \in {"SchemaRegistering", "CatalogIndexing"})

\* C33: every persisted record with retention = temporary has a retention day
\* count: a request with retention = temporary and no day count never results
\* in a persisted record
C33_TemporaryHasDayCount ==
    \A t \in DOMAIN adhoc_tables :
        adhoc_tables[t].retention = RETENTION_TEMPORARY => adhoc_tables[t].retention_days # NULL

\* C35: for every successful ingestion the metadata of the persisted record
\* reports fileName equal to the original name of the uploaded file, columnCount
\* equal to the number of parsed headers and rowCount equal to the number of
\* parsed data rows
C35_MetadataReportsTheUpload ==
    [][JustDid(<<"persist", "ok">>) =>
        LET m == adhoc_tables'[ing'.recordUuid].metadata IN
        /\ m.fileName = ing.request.fileName
        /\ m.columnCount = Len(Headers)
        /\ m.rowCount = ing.request.file.nRows]_vars

\* C35, the part the code keeps: columnCount and rowCount are those of the
\* parsed file
C35_CountsReportTheUpload ==
    [][JustDid(<<"persist", "ok">>) =>
        LET m == adhoc_tables'[ing'.recordUuid].metadata IN
        /\ m.columnCount = Len(Headers)
        /\ m.rowCount = ing.request.file.nRows]_vars

\* C34: every ingestion eventually terminates in Ready or Failed, even if a
\* warehouse call never responds
C34_IngestionTerminates == ~IngFinished ~> ing.pc \in {"Ready", "Failed"}

\* C34, the part the code keeps: an ingestion whose warehouse calls are all
\* answered terminates in Ready or Failed
C34_TerminatesWhenAnswered ==
    WF_vars(CreateTable) /\ WF_vars(LoadRows) => C34_IngestionTerminates

NameGenerated == call.fn = "generateWarehouseTableName" /\ call.out # NULL

\* C38: the physical table name recorded in the metadata record and used as the
\* sqlTable of the Explore is the identifier under which the adapter created the
\* table: for every generated name the adapter's table-name sanitization and
\* truncation return the name unchanged
C38_GeneratedNameIsCreatedName ==
    NameGenerated => \A v \in Adapters : call.out.created[v] = call.out.name

\* C38, the part the code keeps: the adapters with identifier limits of 127
\* characters and more create the table under the generated name, and so does
\* the Postgres adapter for names of at most 63 characters
C38_NameIsKeptWithinTheLimit ==
    NameGenerated =>
        /\ \A v \in Adapters \ {"postgres"} : call.out.created[v] = call.out.name
        /\ Length(call.out.name) <= PostgresLimit =>
              call.out.created["postgres"] = call.out.name

\* a helper has loaded a row
ValueLoaded == call.fn = "loadValue" /\ call.out # NULL

\* the table holds one row per input row, and the column the value of the row
\* under the original header, after a call of one of `variants` without error
TableHoldsTheInput(variants) ==
    /\ (AdapterReturned /\ call.arg.variant \in variants /\ call.out.error = NoError) =>
          call.out.table = [exists |-> TRUE, rows |-> call.arg.nRows]
    /\ (ValueLoaded /\ call.arg.variant \in variants /\ call.out.error = NoError) =>
          call.out.value = call.arg.value

\* C39: after a successful createTableFromData in any adapter variant the table
\* holds exactly one row per input row, and in each row every column holds the
\* value of the input row under the original header of the column (NULL when
\* missing), also for columns whose names are changed by sanitization
C39_TableHoldsTheInput == TableHoldsTheInput(Adapters)

\* C39, the part the code keeps: the SQL helpers and the BigQuery helper load
\* one row per input row with the values under the original headers
C39_SqlTableHoldsTheInput == TableHoldsTheInput(Adapters \ {"snowflake"})

\* how often the helper made the call `op`
Count(op) == Cardinality({i \in DOMAIN call.out.calls : call.out.calls[i] = op})

\* the helper made the call `op` and it did not fail
Acquired(op) ==
    \E i \in DOMAIN call.out.calls : call.out.calls[i] = op /\ i # call.out.failed

\* C40: every resource an adapter acquires is released on every exit path of
\* createTableFromData: the pooled connection of the SQL variants is released
\* exactly once whether creation, loading, commit or rollback succeeds or
\* fails, and the temporary CSV file of the staged-file variant is deleted
\* whether staging and loading succeed or fail
C40_ResourcesAreReleased ==
    AdapterReturned =>
        LET calls == call.out.calls IN
        /\ Count("release") = (IF Acquired("connect") THEN 1 ELSE 0)
        /\ Acquired("connect") => calls[Len(calls)] = "release"
        /\ Count("unlink") = (IF Acquired("writeFile") THEN 1 ELSE 0)
        /\ Acquired("writeFile") => calls[Len(calls)] = "unlink"

\* the connection was released after a load that failed and a ROLLBACK that
\* failed too
C40_Witness ==
    /\ AdapterReturned
    /\ FailedCall = "INSERT"
    /\ call.out.error = RollbackError
    /\ Count("release") = 1

\* C37: concurrent ingestions share no mutable state other than the metadata
\* store and the connection pool: for every interleaving of two ingestions (two
\* staged-file loads running at the same time included) each physical table is
\* loaded with exactly the rows of its own upload, and neither ingestion fails
\* or loses data because of the other
C37_LoadsDoNotInterfere ==
    call.fn = "stagedLoads" =>
        \A i \in Loads :
            /\ call.out.tables[i] \in {Nothing, EmptyTable, RowsOf(i)}
            /\ call.out.staged[i] \in {Nothing, RowsOf(i)}
            /\ call.out.error[i] # NoSuchFileError
            /\ call.out.pc[i] = "returned" => call.out.tables[i] = RowsOf(i)

\* C37, the part the code keeps: two loads that write their files in different
\* milliseconds load their own rows and fail only when one of their own
\* statements fails
C37_LoadsAtDifferentTimesDoNotInterfere ==
    (/\ call.fn = "stagedLoads"
     /\ \A i, j \in Loads :
          (i # j /\ call.out.csvPath[i] # NULL) => call.out.csvPath[i] # call.out.csvPath[j])
    => \A i \in Loads :
            /\ call.out.tables[i] \in {Nothing, EmptyTable, RowsOf(i)}
            /\ call.out.staged[i] \in {Nothing, RowsOf(i)}
            /\ call.out.error[i] # NoSuchFileError
            /\ call.out.pc[i] = "returned" => call.out.tables[i] = RowsOf(i)

Next ==
    \/ Tick
    \/ \E p \in Projects \cup {UnknownProject}, u \in Users, r \in Requests :
           IngestStart(p, u, r)
    \/ Parse
    \/ PrepareWarehouse
    \/ CreateTable
    \/ LoadRows
    \/ InsertMetadata
    \/ RegisterExplore
    \/ IndexCatalog
    \/ \E t \in 1..MaxUploads, u \in Users : DeleteTable(t, u)

Spec == Init /\ [][Next]_vars

(* ---------------- sharing: grant, revoke and delete on uploaded tables ---------------- *)
\* the adhoc_tables row of upload number t, made at time t - 1 by user u into
\* project p with scope sc
UploadedRow(t, p, u, sc) ==
    [uuid |-> t,
     project_uuid |-> p,
     name |-> "sales",
     warehouse_table_name |-> <<"adhoc", "sales", u, t - 1>>,
     warehouse_type |-> WarehouseTypeOf(p),
     scope |-> sc,
     created_by |-> u,
     updated_at |-> t - 1,
     deleted_at |-> NULL,
     metadata |-> [columnCount |-> Len(Headers), rowCount |-> MaxRows]]

\* the service after MaxUploads uploads, one per tick, each by any user into
\* any project with any scope, whose Explore registration failed
InitAccess ==
    /\ clock = MaxUploads - 1
    /\ uploads = MaxUploads
    /\ \E p \in [1..MaxUploads -> Projects], u \in [1..MaxUploads -> Users],
          sc \in [1..MaxUploads -> Scopes] :
          /\ adhoc_tables = [t \in 1..MaxUploads |-> UploadedRow(t, p[t], u[t], sc[t])]
          /\ warehouse = [n \in {<<"adhoc", "sales", u[t], t - 1>> : t \in 1..MaxUploads}
                            |-> [rows |-> MaxRows, committed |-> TRUE]]
    /\ adhoc_table_access = {}
    /\ cached_explore = {}
    /\ catalog_search = {}
    /\ ing = [IdleIng EXCEPT !.pc = "Ready", !.recordUuid = MaxUploads,
                             !.steps = <<<<"project", "ok">>, <<"parse", "ok">>,
                                         <<"infer", "ok">>, <<"create", "ok">>,
                                         <<"load", "ok">>, <<"persist", "ok">>,
                                         <<"register", "failed">>>>]
    /\ resp = NoResp
    /\ call = NoCall

NextAccess ==
    \/ \E t \in 1..MaxUploads, u \in Users, g \in Users : GrantTableAccess(t, u, g)
    \/ \E t \in 1..MaxUploads, u \in Users, g \in Users : RevokeTableAccess(t, u, g)
    \/ \E t \in 1..MaxUploads, u \in Users : DeleteTable(t, u)

SpecAccess == InitAccess /\ [][NextAccess]_vars

(* ---------------- type inference on every column ---------------- *)
InitInfer ==
    /\ ServiceInit
    /\ call \in {[fn |-> "inferColumnTypes", arg |-> c, out |-> NULL] : c \in Columns}

NextInfer == InferColumnTypes

SpecInfer == InitInfer /\ [][NextInfer]_vars

(* ---------------- the sanitizers on every name ---------------- *)
InitSanitize ==
    /\ ServiceInit
    /\ \/ call \in {[fn |-> f, arg |-> name, out |-> NULL] : f \in Sanitizers, name \in Names}
       \/ call \in {[fn |-> f, arg |-> h, out |-> NULL] :
                        f \in {"generateDimensions", "buildCreateTableStatement"},
                        h \in HeaderLists}
       \/ call \in {[fn |-> "generateExplore", arg |-> [names |-> h, types |-> t],
                     out |-> NULL] : h \in HeaderLists, t \in SemanticTypes \X SemanticTypes}
       \/ call \in {[fn |-> "generateWarehouseTableName", arg |-> name, out |-> NULL] :
                        name \in Names}

NextSanitize ==
    \/ Sanitize
    \/ GenerateDimensions
    \/ GenerateExplore
    \/ BuildCreateTableStatement
    \/ GenerateWarehouseTableName

SpecSanitize == InitSanitize /\ [][NextSanitize]_vars

(* ---------------- the specification of the helpers' createTableFromData ---------------- *)
InitAdapter ==
    /\ ServiceInit
    /\ \/ call \in {[fn |-> "createTableFromData", arg |-> [variant |-> v, nRows |-> n],
                     out |-> NULL] : v \in Adapters, n \in RowCounts}
       \/ call \in {[fn |-> "columnDef", arg |-> [variant |-> v, column |-> InferredColumn(t)],
                     out |-> NULL] : v \in Adapters, t \in SemanticTypes}
       \/ call \in {[fn |-> "loadValue", arg |-> [variant |-> v, name |-> n, value |-> x],
                     out |-> NULL] : v \in Adapters, n \in ColumnNames, x \in CellValues}

NextAdapter ==
    \/ CreateTableFromData
    \/ BuildColumnDef
    \/ LoadValue

SpecAdapter == InitAdapter /\ [][NextAdapter]_vars

(* ---------------- the specification of registerExplore and its readers ---------------- *)
InitRegister ==
    /\ ServiceInit
    /\ call = NoCall

NextRegister ==
    \/ \E p \in Projects, n \in RegisteredTables, w \in WarehouseTableNames :
          RegisterExploreCall(p, n, w)
    \/ \E p \in Projects, n \in RegisteredTables : ReadExplore(p, n)

SpecRegister == InitRegister /\ [][NextRegister]_vars

(* ---------------- the specifications of the catalog service and of deleteTable ---------------- *)
\* the tables whose uploads are behind the service
IndexedTables == {1, 2}

\* the cached_explore row registerExplore left for an uploaded table
RegisteredExplore(row) ==
    [project_uuid |-> row.project_uuid, name |-> row.uuid, cached_explore_uuid |-> row.uuid,
     explore |-> generateExplore(row.uuid, row.warehouse_table_name)]

\* the service after the uploads of the IndexedTables, one per tick, each by
\* any user into any project: the rows, the warehouse tables and the Explores
\* are there
Uploaded(p, u) ==
    /\ clock = Cardinality(IndexedTables) - 1
    /\ uploads = Cardinality(IndexedTables)
    /\ adhoc_tables = [t \in IndexedTables |-> UploadedRow(t, p[t], u[t], SCOPE_SHARED)]
    /\ warehouse = [n \in {<<"adhoc", "sales", u[t], t - 1>> : t \in IndexedTables}
                      |-> [rows |-> MaxRows, committed |-> TRUE]]
    /\ adhoc_table_access = {}
    /\ cached_explore = {RegisteredExplore(adhoc_tables[t]) : t \in IndexedTables}
    /\ ing = [IdleIng EXCEPT !.pc = "Ready", !.recordUuid = Cardinality(IndexedTables),
                             !.exploreUuid = Cardinality(IndexedTables),
                             !.steps = <<<<"project", "ok">>, <<"parse", "ok">>,
                                         <<"infer", "ok">>, <<"create", "ok">>,
                                         <<"load", "ok">>, <<"persist", "ok">>,
                                         <<"register", "ok">>, <<"index", "failed">>>>]
    /\ resp = NoResp
    /\ call = NoCall

\* the uploads were u1's into p1, and the catalog step of every upload failed at
\* its first statement
InitCatalog ==
    /\ Uploaded([t \in IndexedTables |-> "p1"], [t \in IndexedTables |-> "u1"])
    /\ catalog_search = {}

NextCatalog ==
    \/ \E p \in Projects, t \in DeleteIds : RegisterInCatalogCall(p, t)
    \/ \E p \in Projects, t \in DeleteIds : RemoveFromCatalogCall(p, t)

SpecCatalog == InitCatalog /\ [][NextCatalog]_vars

\* the catalog step of each upload ran to any of its statements
InitDelete ==
    /\ \E p \in [IndexedTables -> Projects], u \in [IndexedTables -> Users] : Uploaded(p, u)
    /\ \E k \in [IndexedTables -> 0..NumCatalogEntries] :
          LET entries(t) == CatalogEntries(adhoc_tables[t].project_uuid, t,
                                           RegisteredExplore(adhoc_tables[t]).explore,
                                           adhoc_tables[t].warehouse_table_name)
          IN catalog_search = UpsertAll(UpsertAll({}, entries(1), k[1]), entries(2), k[2])

NextDelete == \E t \in DeleteIds, u \in Users : DeleteTable(t, u)

SpecDelete == InitDelete /\ [][NextDelete]_vars

(* ---------------- two uploads in flight ---------------- *)
\* an uploaded file with data rows
GoodFile == [fileType |-> TYPE_CSV, malformed |-> FALSE, nRows |-> MaxRows]

\* two createFromFile calls have been made, by any users into one project (one
\* warehouse connection), with the same display name
InitConcurrent ==
    /\ clock = 0
    /\ uploads = 2
    /\ adhoc_tables = <<>>
    /\ adhoc_table_access = {}
    /\ warehouse = <<>>
    /\ cached_explore = {}
    /\ catalog_search = {}
    /\ resp = NoResp
    /\ \E p \in Projects, u1 \in Users, u2 \in Users :
          LET r == [file |-> GoodFile, fileName |-> UploadedName, tableName |-> "sales",
                    scope |-> SCOPE_PERSONAL, retention |-> RETENTION_PERMANENT,
                    retentionDays |-> NULL] IN
          /\ ing = Started(p, u1, r)
          /\ call = Suspended(Started(p, u2, r))

NextConcurrent ==
    \/ Tick
    \/ Resume
    \/ Parse
    \/ PrepareWarehouse
    \/ CreateTable
    \/ LoadRows
    \/ InsertMetadata
    \/ RegisterExplore
    \/ IndexCatalog

SpecConcurrent == InitConcurrent /\ [][NextConcurrent]_vars

(* ---------------- uploads of the upload form ---------------- *)
NextForm ==
    \/ \E p \in Projects, u \in Users, r \in RetentionRequests : IngestStart(p, u, r)
    \/ Parse
    \/ PrepareWarehouse
    \/ CreateTable
    \/ LoadRows
    \/ InsertMetadata
    \/ RegisterExplore
    \/ IndexCatalog

SpecForm == Init /\ [][NextForm]_vars

(* ---------------- progress of createFromFile ---------------- *)
\* the steps createFromFile takes by itself are taken: an awaited call of the
\* parser or of the backend's own database returns. CreateTable and LoadRows
\* happen when the warehouse answers, which nothing in createWarehouseTable or
\* in the adapters enforces: no timer runs beside the awaited call.
Progress ==
    /\ WF_vars(Parse)
    /\ WF_vars(PrepareWarehouse)
    /\ WF_vars(InsertMetadata)
    /\ WF_vars(RegisterExplore)
    /\ WF_vars(IndexCatalog)

SpecLive == Init /\ [][Next]_vars /\ Progress

(* ---------------- two staged-file loads in flight ---------------- *)
InitStaged ==
    /\ ServiceInit
    /\ call = [fn |-> "stagedLoads", arg |-> NULL, out |-> StagedLoadsInit]

NextStaged ==
    \/ Tick
    \/ \E i \in Loads :
          \/ StagedCreate(i)
          \/ StagedWrite(i)
          \/ StagedPut(i)
          \/ StagedCopy(i)
          \/ StagedUnlink(i)

SpecStaged == InitStaged /\ [][NextStaged]_vars
====
